---- MODULE Spec2Model ----
(***************************************************************************)
(* Entitlement and transaction ledger of the rule marketplace backend:     *)
(* transactionController (purchaseRule, requestRefund, processRefund),     *)
(* the content gate of ruleController (getRuleById, getRules), the         *)
(* download route, and the Reviews of reviewController with the rating     *)
(* aggregate they keep on the rule.                                        *)
(*                                                                         *)
(* Every request handler is an async function; each `await` of a database  *)
(* call is a point where other requests (of this or of another server      *)
(* process) may run.  A handler is therefore modelled as a sequence of     *)
(* steps, one per database call, each step carrying the synchronous code   *)
(* that follows the call up to the next one.  A request occupies a slot of *)
(* `reqs` from its start until the slot is taken by a later request.       *)
(*                                                                         *)
(* Documents are modelled as MongoDB stores them: records of the paths the *)
(* handlers name.  transactionController reads rule.creator,               *)
(* rule.pricing.type, rule.pricing.amount and rule.stats and increments    *)
(* the user path statistics.earnings, whereas models/Rule.js and           *)
(* models/User.js declare author, pricing.isPaid, pricing.price,           *)
(* statistics and statistics.totalEarnings.  Both families of paths are    *)
(* kept on the documents, independent of each other, as the code treats    *)
(* them.                                                                   *)
(*                                                                         *)
(* Money is a JavaScript Number.  Numbers are modelled as IEEE-754 doubles *)
(* in the range the ledger uses: a sign and the magnitude |x| * 2^FracBits  *)
(* held as a sequence of limbs, every arithmetic result rounded to         *)
(* Precision significant bits, ties to even.                               *)
(***************************************************************************)
EXTENDS Integers, Sequences, FiniteSets, TLC

----------------------------------------------------------------------------
(* JavaScript Number arithmetic *)

\* a magnitude is a sequence of limbs, least significant first, trimmed
LimbBits == 15
Base == 2^LimbBits

\* significand of a double: 52 stored bits and the implicit leading one
Precision == 53

\* magnitudes are held in units of 2^-FracBits
FracBits == 5 * LimbBits

Max(a, b) == IF a >= b THEN a ELSE b

LimbAt(a, i) == IF i >= 1 /\ i <= Len(a) THEN a[i] ELSE 0

Trim(a) ==
  LET nz == {i \in 1..Len(a) : a[i] # 0}
  IN  IF nz = {} THEN <<>>
      ELSE SubSeq(a, 1, CHOOSE i \in nz : \A j \in nz : j <= i)

RECURSIVE AddFrom(_, _, _, _)
AddFrom(a, b, i, carry) ==
  IF i > Max(Len(a), Len(b)) THEN (IF carry = 0 THEN <<>> ELSE <<carry>>)
  ELSE LET s == LimbAt(a, i) + LimbAt(b, i) + carry
       IN  <<s % Base>> \o AddFrom(a, b, i + 1, s \div Base)

BAdd(a, b) == AddFrom(a, b, 1, 0)

RECURSIVE SubFrom(_, _, _, _)
SubFrom(a, b, i, borrow) ==
  IF i > Len(a) THEN <<>>
  ELSE LET d == LimbAt(a, i) - LimbAt(b, i) - borrow
       IN  <<d % Base>> \o SubFrom(a, b, i + 1, IF d < 0 THEN 1 ELSE 0)

\* a - b for a >= b
BSub(a, b) == Trim(SubFrom(a, b, 1, 0))

BLess(a, b) ==
  \/ Len(a) < Len(b)
  \/ /\ Len(a) = Len(b)
     /\ \E i \in 1..Len(a) : /\ a[i] < b[i]
                             /\ \A j \in (i + 1)..Len(a) : a[j] = b[j]

RECURSIVE MulLimbFrom(_, _, _, _)
MulLimbFrom(a, d, i, carry) ==
  IF i > Len(a) THEN (IF carry = 0 THEN <<>> ELSE <<carry>>)
  ELSE LET p == a[i] * d + carry
       IN  <<p % Base>> \o MulLimbFrom(a, d, i + 1, p \div Base)

ShlLimbs(a, k) == IF a = <<>> THEN <<>> ELSE [i \in 1..k |-> 0] \o a

RECURSIVE BMul(_, _)
BMul(a, b) ==
  IF b = <<>> \/ a = <<>> THEN <<>>
  ELSE BAdd(Trim(MulLimbFrom(a, Head(b), 1, 0)), ShlLimbs(BMul(a, Tail(b)), 1))

RECURSIVE WidthOf(_)
WidthOf(n) == IF n = 0 THEN 0 ELSE 1 + WidthOf(n \div 2)

BitLen(a) == IF a = <<>> THEN 0 ELSE LimbBits * (Len(a) - 1) + WidthOf(a[Len(a)])

\* bit i (from 1, least significant) of a
BitAt(a, i) == (LimbAt(a, (i - 1) \div LimbBits + 1) \div 2^((i - 1) % LimbBits)) % 2

\* floor(a / 2^k)
BShr(a, k) ==
  LET q == k \div LimbBits
      r == k % LimbBits
  IN  Trim([i \in 1..(Len(a) - q) |->
              LimbAt(a, i + q) \div 2^r + (LimbAt(a, i + q + 1) % 2^r) * 2^(LimbBits - r)])

\* a * 2^k
BShl(a, k) ==
  ShlLimbs(Trim(MulLimbFrom(a, 2^(k % LimbBits), 1, 0)), k \div LimbBits)

\* round an integer to Precision significant bits, ties to even
RoundSig(a) ==
  IF BitLen(a) <= Precision THEN a
  ELSE LET d      == BitLen(a) - Precision
           kept   == BShr(a, d)
           sticky == BShl(BShr(a, d - 1), d - 1) # a
           up     == BitAt(a, d) = 1 /\ (sticky \/ BitAt(kept, 1) = 1)
       IN  BShl(IF up THEN BAdd(kept, <<1>>) ELSE kept, d)

Num(neg, mag) == [neg |-> neg /\ mag # <<>>, mag |-> mag]

Zero == Num(FALSE, <<>>)

FNeg(x) == Num(~x.neg, x.mag)

FAdd(x, y) ==
  IF x.neg = y.neg THEN Num(x.neg, RoundSig(BAdd(x.mag, y.mag)))
  ELSE IF BLess(x.mag, y.mag) THEN Num(y.neg, RoundSig(BSub(y.mag, x.mag)))
  ELSE Num(x.neg, RoundSig(BSub(x.mag, y.mag)))

FSub(x, y) == FAdd(x, FNeg(y))

FMul(x, y) == Num(x.neg # y.neg, BShr(RoundSig(BMul(x.mag, y.mag)), FracBits))

RECURSIVE FromHex(_)
\* the integer written by the hex digits ds, most significant first
FromHex(ds) ==
  IF ds = <<>> THEN <<>>
  ELSE IF Len(ds) = 1 THEN Trim(<<ds[1]>>)
  ELSE LET h == Len(ds) \div 2
       IN  BAdd(BShl(FromHex(SubSeq(ds, 1, h)), 4 * (Len(ds) - h)),
                FromHex(SubSeq(ds, h + 1, Len(ds))))

\* the double whose significand is ds (hex digits, most significant first)
\* and whose value is ds * 2^e
Double(ds, e) == Num(FALSE, BShl(FromHex(ds), FracBits + e))


\* 0.1 = 0x1.999999999999Ap-4
platformFeePercent == Double(<<1, 9, 9, 9, 9, 9, 9, 9, 9, 9, 9, 9, 9, 10>>, -56)

\* prices of the catalogue: 0.3 = 0x1.3333333333333p-2, 10 and 15
Price0_3 == Double(<<1, 3, 3, 3, 3, 3, 3, 3, 3, 3, 3, 3, 3, 3>>, -54)
Price10 == Double(<<10>>, 0)
Price15 == Double(<<15>>, 0)

\* A rating aggregate is a JavaScript Number too, the quotient of a sum of
\* ratings by their number.  The quotients of integers this small are distinct
\* doubles exactly when they are distinct fractions, so the quotient is held as
\* its fraction in lowest terms; 0 / 0 is NaN.
RECURSIVE GCD(_, _)
GCD(a, b) == IF b = 0 THEN a ELSE GCD(b, a % b)

NaN == [num |-> 0, den |-> 0]

Whole(n) == [num |-> n, den |-> 1]

Quotient(a, b) ==
  IF b = 0 THEN NaN
  ELSE LET g == GCD(a, b) IN
       IF g = 0 THEN Whole(0) ELSE [num |-> a \div g, den |-> b \div g]

----------------------------------------------------------------------------
(* Documents *)

Undefined == "undefined"

Users == {"u1", "u2", "adm"}

role == [u1 |-> "USER", u2 |-> "USER", adm |-> "ADMIN"]

RuleIds == {"r1", "r2", "r3"}

Slots == <<"q1", "q2">>

ReqIds == {Slots[i] : i \in DOMAIN Slots}

MaxTx == 2
MaxRequests == 4

RuleDoc(creator, author, type, amount, isPaid, visibility, query) ==
  [creator     |-> creator,
   author      |-> author,
   pricing     |-> [type |-> type, amount |-> amount, isPaid |-> isPaid],
   ruleContent |-> [query |-> query],
   visibility  |-> visibility,
   stats       |-> [purchases |-> 0, revenue |-> Zero,
                    rating |-> Whole(0), reviewCount |-> 0],
   statistics  |-> [views |-> 0, downloads |-> 0],
   status      |-> "DRAFT",
   isActive    |-> TRUE]

\* r1, r2: paid rules carrying the paths transactionController reads, r1 made
\* PUBLIC by its author, r2 left with createRule's default visibility;
\* r3: a paid rule carrying only the paths createRule stores (no creator, no
\* pricing.type)
Catalogue ==
  [r1 |-> RuleDoc("u1", "u1", "PAID", Price0_3, TRUE, "PUBLIC", <<"a", "b", "c">>),
   r2 |-> RuleDoc("u2", "u2", "PAID", Price10, TRUE, "PRIVATE", <<"d", "e">>),
   r3 |-> RuleDoc(Undefined, "u1", Undefined, Price15, TRUE, "PRIVATE", <<"f">>)]

UserDoc(r) ==
  [role |-> r, statistics |-> [totalEarnings |-> Zero, earnings |-> Zero]]

NoMetadata ==
  [ruleTitle |-> Undefined, refundReason |-> Undefined,
   refundRequestedAt |-> -1, refundRequestedBy |-> Undefined]

NoRule == RuleDoc(Undefined, Undefined, Undefined, Zero, FALSE, Undefined, <<>>)

NoTx ==
  [buyer |-> Undefined, seller |-> Undefined, rule |-> Undefined,
   amount |-> Zero, status |-> Undefined, platformFee |-> Zero,
   sellerEarnings |-> Zero, metadata |-> NoMetadata, createdAt |-> -1]

\* a Review as models/Review.js declares it, with the version key Mongoose
\* keeps on every document
ReviewDoc(rule, user, rating, comment, verified) ==
  [rule |-> rule, user |-> user, rating |-> rating, comment |-> comment,
   verified |-> verified, helpful |-> [count |-> 0, users |-> <<>>],
   reported |-> FALSE, isActive |-> TRUE, __v |-> 0]

NoReview == ReviewDoc(Undefined, Undefined, 0, "", FALSE)

Idle ==
  [op |-> "idle", pc |-> "idle", user |-> Undefined, rule |-> Undefined,
   id |-> 0, reason |-> "", approved |-> FALSE, rating |-> 0,
   comment |-> "", helpful |-> FALSE, action |-> "",
   rdoc |-> NoRule, tdoc |-> NoTx, vdoc |-> NoReview, avg |-> Whole(0),
   count |-> 0, purchase |-> 0, result |-> Undefined, query |-> <<>>,
   list |-> {}]

VARIABLES rules, users, transactions, purchases, reviews, notifications,
          activities, now, reqs, issued

vars == <<rules, users, transactions, purchases, reviews, notifications,
          activities, now, reqs, issued>>

Init ==
  /\ rules = Catalogue
  /\ users = [u \in Users |-> UserDoc(role[u])]
  /\ transactions = <<>>
  /\ purchases = <<>>
  /\ reviews = <<>>
  /\ notifications = {}
  /\ activities = {}
  /\ now = 0
  /\ reqs = [q \in ReqIds |-> Idle]
  /\ issued = 0

\* a slot is free before its first request and once its response is out
Free(q) == reqs[q].pc \in {"idle", "done"}

\* a client sends a request: it takes the first free slot
Accept(q, rq) ==
  /\ Free(q)
  /\ \A i \in DOMAIN Slots : Slots[i] = q => \A j \in 1..(i - 1) : ~Free(Slots[j])
  /\ issued < MaxRequests
  /\ issued' = issued + 1
  /\ reqs' = [reqs EXCEPT ![q] = rq]

\* the response leaves the handler; the slot shows it until it is taken again
Respond(q, res) ==
  [reqs EXCEPT ![q].pc = "done", ![q].result = res,
               ![q].rdoc = NoRule, ![q].tdoc = NoTx, ![q].vdoc = NoReview]

Goto(q, pc) == [reqs EXCEPT ![q].pc = pc]

Notify(recipient, type, title, id) ==
  notifications \cup
    {[recipient |-> recipient, type |-> type, title |-> title, id |-> id]}

InFlight(op) == Cardinality({q \in ReqIds : reqs[q].op = op /\ ~Free(q)})

----------------------------------------------------------------------------
(* purchaseRule: POST /api/v1/transactions/purchase *)

purchaseRule_Start(q, u, r) ==
  /\ Len(transactions) + InFlight("purchaseRule") < MaxTx
  /\ Accept(q, [Idle EXCEPT !.op = "purchaseRule", !.pc = "findRule",
                            !.user = u, !.rule = r])
  /\ UNCHANGED <<reviews, rules, users, transactions, purchases, notifications, activities, now>>

\* Rule.findById, then the "is paid" check
purchaseRule_FindRule(q) ==
  LET rq == reqs[q] IN
  /\ rq.op = "purchaseRule" /\ rq.pc = "findRule"
  /\ reqs' = IF rules[rq.rule].pricing.type # "PAID"
              THEN Respond(q, "400 This rule is not for sale")
              ELSE [reqs EXCEPT ![q].pc = "findPurchase",
                                ![q].rdoc = rules[rq.rule]]
  /\ UNCHANGED <<reviews, rules, users, transactions, purchases, notifications, activities, now, issued>>

\* variant of existingPurchase: the lookup never finds a document
existingPurchase_None(u, r) == FALSE

existingPurchase(u, r) ==
  \E i \in 1..Len(purchases) :
     purchases[i].user = u /\ purchases[i].rule = r /\ purchases[i].isActive

\* Purchase.findOne, then the "already purchased" and "own rule" checks
purchaseRule_FindPurchase(q) ==
  LET rq == reqs[q] IN
  /\ rq.op = "purchaseRule" /\ rq.pc = "findPurchase"
  /\ reqs' = IF existingPurchase(rq.user, rq.rule)
              THEN Respond(q, "409 You have already purchased this rule")
              ELSE IF rq.rdoc.creator = Undefined
              THEN Respond(q, "500 TypeError")
              ELSE IF rq.rdoc.creator = rq.user
              THEN Respond(q, "400 You cannot purchase your own rule")
              ELSE Goto(q, "saveTransaction")
  /\ UNCHANGED <<reviews, rules, users, transactions, purchases, notifications, activities, now, issued>>

platformFee(amount) == FMul(amount, platformFeePercent)

sellerEarnings(amount) == FSub(amount, platformFee(amount))

NewTransaction(buyer, rdoc, r, at) ==
  [buyer |-> buyer, seller |-> rdoc.creator, rule |-> r,
   amount |-> rdoc.pricing.amount, status |-> "COMPLETED",
   platformFee |-> platformFee(rdoc.pricing.amount),
   sellerEarnings |-> sellerEarnings(rdoc.pricing.amount),
   metadata |-> [NoMetadata EXCEPT !.ruleTitle = r],
   createdAt |-> at]

\* transaction.save()
purchaseRule_SaveTransaction(q) ==
  LET rq == reqs[q] IN
  /\ rq.op = "purchaseRule" /\ rq.pc = "saveTransaction"
  /\ transactions' =
       Append(transactions, NewTransaction(rq.user, rq.rdoc, rq.rule, now))
  /\ reqs' = [reqs EXCEPT ![q].pc = "savePurchase",
                          ![q].id = Len(transactions) + 1]
  /\ UNCHANGED <<reviews, rules, users, purchases, notifications, activities, now, issued>>

\* variant of NewPurchase: the document is stored inactive
NewPurchase_Inactive(u, r, t) ==
  [user |-> u, rule |-> r, transaction |-> t, isActive |-> FALSE,
   downloads |-> [count |-> 0, lastDownloadedAt |-> -1, history |-> <<>>]]

NewPurchase(u, r, t) ==
  [user |-> u, rule |-> r, transaction |-> t, isActive |-> TRUE,
   downloads |-> [count |-> 0, lastDownloadedAt |-> -1, history |-> <<>>]]

\* purchase.save(); purchaseSchema.index({user: 1, rule: 1}) is not unique
purchaseRule_SavePurchase(q) ==
  LET rq == reqs[q] IN
  /\ rq.op = "purchaseRule" /\ rq.pc = "savePurchase"
  /\ purchases' = Append(purchases, NewPurchase(rq.user, rq.rule, rq.id))
  /\ reqs' = [reqs EXCEPT ![q].pc = "saveRule",
                          ![q].purchase = Len(purchases) + 1]
  /\ UNCHANGED <<reviews, rules, users, transactions, notifications, activities, now, issued>>

\* rule.stats.purchases / revenue set from the loaded document; rule.save()
purchaseRule_SaveRule(q) ==
  LET rq == reqs[q] IN
  /\ rq.op = "purchaseRule" /\ rq.pc = "saveRule"
  /\ rules' = [rules EXCEPT ![rq.rule].stats =
                  [purchases |-> rq.rdoc.stats.purchases + 1,
                   revenue   |-> FAdd(rq.rdoc.stats.revenue, rq.rdoc.pricing.amount)]]
  /\ reqs' = Goto(q, "notifySeller")
  /\ UNCHANGED <<reviews, users, transactions, purchases, notifications, activities, now, issued>>

purchaseRule_NotifySeller(q) ==
  LET rq == reqs[q] IN
  /\ rq.op = "purchaseRule" /\ rq.pc = "notifySeller"
  /\ notifications' =
       Notify(rq.rdoc.creator, "RULE_PURCHASED", "Your rule was purchased", rq.id)
  /\ reqs' = Goto(q, "notifyBuyer")
  /\ UNCHANGED <<reviews, rules, users, transactions, purchases, activities, now, issued>>

\* the buyer's notification, transaction.populate and the 201 response
purchaseRule_NotifyBuyer(q) ==
  LET rq == reqs[q] IN
  /\ rq.op = "purchaseRule" /\ rq.pc = "notifyBuyer"
  /\ notifications' =
       Notify(rq.user, "RULE_PURCHASED", "Purchase successful", rq.id)
  /\ reqs' = Respond(q, "201 Purchase completed successfully")
  /\ UNCHANGED <<reviews, rules, users, transactions, purchases, activities, now, issued>>

purchaseRule(q) ==
  \/ \E u \in Users, r \in RuleIds : purchaseRule_Start(q, u, r)
  \/ purchaseRule_FindRule(q)
  \/ purchaseRule_FindPurchase(q)
  \/ purchaseRule_SaveTransaction(q)
  \/ purchaseRule_SavePurchase(q)
  \/ purchaseRule_SaveRule(q)
  \/ purchaseRule_NotifySeller(q)
  \/ purchaseRule_NotifyBuyer(q)

----------------------------------------------------------------------------
(* requestRefund: POST /api/v1/transactions/:id/refund *)

RefundWindowDays == 30

TxIds == 1..MaxTx

Reasons == {"", "not as described"}

\* a request without a reason is answered before any document is read
requestRefund_Start(q, u, id, reason) ==
  /\ Accept(q, IF reason = ""
               THEN [Idle EXCEPT !.op = "requestRefund", !.pc = "done",
                                 !.user = u, !.id = id, !.reason = reason,
                                 !.result = "400 Refund reason is required"]
               ELSE [Idle EXCEPT !.op = "requestRefund", !.pc = "findTransaction",
                                 !.user = u, !.id = id, !.reason = reason])
  /\ UNCHANGED <<reviews, rules, users, transactions, purchases, notifications, activities, now>>

\* elapsed days since the transaction was created
daysSince(t) == now - t.createdAt

\* variant of isBuyer: no check of the requester
isBuyer_Anyone(t, u) == TRUE

\* transaction.buyer.toString() === req.user._id.toString()
isBuyer(t, u) == t.buyer = u

\* variant of refundWindowExpired: the window closes on the 30th day
refundWindowExpired_AtLimit(t) == daysSince(t) >= RefundWindowDays

\* daysSince > 30
refundWindowExpired(t) == daysSince(t) > RefundWindowDays

\* Transaction.findById and the checks on the loaded document
requestRefund_FindTransaction(q) ==
  LET rq == reqs[q] IN
  /\ rq.op = "requestRefund" /\ rq.pc = "findTransaction"
  /\ reqs' =
       IF rq.id > Len(transactions)
       THEN Respond(q, "404 Transaction not found")
       ELSE LET t == transactions[rq.id] IN
            IF ~isBuyer(t, rq.user)
            THEN Respond(q, "403 Only the buyer can request a refund")
            ELSE IF t.status # "COMPLETED"
            THEN Respond(q, "400 Refund can only be requested for completed transactions")
            ELSE IF refundWindowExpired(t)
            THEN Respond(q, "400 Refund requests can only be made within 30 days")
            ELSE [reqs EXCEPT ![q].pc = "saveTransaction",
                              ![q].tdoc =
                                 [t EXCEPT !.status = "DISPUTED",
                                           !.metadata.refundReason = rq.reason,
                                           !.metadata.refundRequestedAt = now,
                                           !.metadata.refundRequestedBy = rq.user]]
  /\ UNCHANGED <<reviews, rules, users, transactions, purchases, notifications, activities, now, issued>>

\* transaction.save() writes the paths the handler modified
requestRefund_SaveTransaction(q) ==
  LET rq == reqs[q] IN
  /\ rq.op = "requestRefund" /\ rq.pc = "saveTransaction"
  /\ transactions' = [transactions EXCEPT ![rq.id].status = rq.tdoc.status,
                                          ![rq.id].metadata = rq.tdoc.metadata]
  /\ reqs' = Goto(q, "notify")
  /\ UNCHANGED <<reviews, rules, users, purchases, notifications, activities, now, issued>>

requestRefund_Notify(q) ==
  LET rq == reqs[q] IN
  /\ rq.op = "requestRefund" /\ rq.pc = "notify"
  /\ notifications' =
       Notify(rq.tdoc.buyer, "SYSTEM", "Refund request submitted", rq.id)
  /\ reqs' = Respond(q, "200 Refund request submitted successfully")
  /\ UNCHANGED <<reviews, rules, users, transactions, purchases, activities, now, issued>>

requestRefund(q) ==
  \/ \E u \in Users, id \in TxIds, reason \in Reasons :
        requestRefund_Start(q, u, id, reason)
  \/ requestRefund_FindTransaction(q)
  \/ requestRefund_SaveTransaction(q)
  \/ requestRefund_Notify(q)

----------------------------------------------------------------------------
(* processRefund: POST /api/v1/transactions/:id/refund/process *)

\* variant of hasRole: every signed-in user passes
hasRole_Anyone(u, r) == u \in Users

\* middleware hasRole("ADMIN")
hasRole(u, r) == users[u].role = r

processRefund_Start(q, u, id, approved) ==
  /\ Accept(q, IF hasRole(u, "ADMIN")
               THEN [Idle EXCEPT !.op = "processRefund", !.pc = "findTransaction",
                                 !.user = u, !.id = id, !.approved = approved]
               ELSE [Idle EXCEPT !.op = "processRefund", !.pc = "done",
                                 !.user = u, !.id = id, !.approved = approved,
                                 !.result = "403 Insufficient permissions"])
  /\ UNCHANGED <<reviews, rules, users, transactions, purchases, notifications, activities, now>>

\* variant of isDisputed: only refunded transactions are refused
isDisputed_NotRefunded(t) == t.status # "REFUNDED"

\* transaction.status !== "DISPUTED" is the refusal
isDisputed(t) == t.status = "DISPUTED"

\* variant of resolvedStatus: a denial marks the transaction refunded too
resolvedStatus_AlwaysRefunded(approved) == "REFUNDED"

\* the status the handler sets on the loaded document
resolvedStatus(approved) == IF approved THEN "REFUNDED" ELSE "COMPLETED"

\* Transaction.findById, the status check and the new status set in memory
processRefund_FindTransaction(q) ==
  LET rq == reqs[q] IN
  /\ rq.op = "processRefund" /\ rq.pc = "findTransaction"
  /\ reqs' =
       IF rq.id > Len(transactions)
       THEN Respond(q, "404 Transaction not found")
       ELSE LET t == transactions[rq.id] IN
            IF ~isDisputed(t)
            THEN Respond(q, "400 Only disputed transactions can be refunded")
            ELSE [reqs EXCEPT ![q].pc = IF rq.approved THEN "updateSeller"
                                                       ELSE "notifyDenied",
                              ![q].tdoc = [t EXCEPT !.status =
                                                       resolvedStatus(rq.approved)]]
  /\ UNCHANGED <<reviews, rules, users, transactions, purchases, notifications, activities, now, issued>>

\* User.findByIdAndUpdate(seller, {$inc: {"statistics.earnings": -sellerEarnings}})
processRefund_UpdateSeller(q) ==
  LET rq == reqs[q] IN
  /\ rq.op = "processRefund" /\ rq.pc = "updateSeller"
  /\ users' = [users EXCEPT ![rq.tdoc.seller].statistics.earnings =
                  FAdd(@, FNeg(rq.tdoc.sellerEarnings))]
  /\ reqs' = Goto(q, "notifyBuyer")
  /\ UNCHANGED <<reviews, rules, transactions, purchases, notifications, activities, now, issued>>

processRefund_NotifyBuyer(q) ==
  LET rq == reqs[q] IN
  /\ rq.op = "processRefund" /\ rq.pc = "notifyBuyer"
  /\ notifications' = Notify(rq.tdoc.buyer, "SYSTEM", "Refund approved", rq.id)
  /\ reqs' = Goto(q, "notifySeller")
  /\ UNCHANGED <<reviews, rules, users, transactions, purchases, activities, now, issued>>

processRefund_NotifySeller(q) ==
  LET rq == reqs[q] IN
  /\ rq.op = "processRefund" /\ rq.pc = "notifySeller"
  /\ notifications' = Notify(rq.tdoc.seller, "SYSTEM", "Refund issued", rq.id)
  /\ reqs' = Goto(q, "saveTransaction")
  /\ UNCHANGED <<reviews, rules, users, transactions, purchases, activities, now, issued>>

processRefund_NotifyDenied(q) ==
  LET rq == reqs[q] IN
  /\ rq.op = "processRefund" /\ rq.pc = "notifyDenied"
  /\ notifications' = Notify(rq.tdoc.buyer, "SYSTEM", "Refund denied", rq.id)
  /\ reqs' = Goto(q, "saveTransaction")
  /\ UNCHANGED <<reviews, rules, users, transactions, purchases, activities, now, issued>>

\* transaction.save() writes the modified path, status, and the response
processRefund_SaveTransaction(q) ==
  LET rq == reqs[q] IN
  /\ rq.op = "processRefund" /\ rq.pc = "saveTransaction"
  /\ transactions' = [transactions EXCEPT ![rq.id].status = rq.tdoc.status]
  /\ reqs' = Respond(q, IF rq.approved THEN "200 Refund processed"
                                        ELSE "200 Refund denied")
  /\ UNCHANGED <<reviews, rules, users, purchases, notifications, activities, now, issued>>

processRefund(q) ==
  \/ \E u \in Users, id \in TxIds, approved \in BOOLEAN :
        processRefund_Start(q, u, id, approved)
  \/ processRefund_FindTransaction(q)
  \/ processRefund_UpdateSeller(q)
  \/ processRefund_NotifyBuyer(q)
  \/ processRefund_NotifySeller(q)
  \/ processRefund_NotifyDenied(q)
  \/ processRefund_SaveTransaction(q)

----------------------------------------------------------------------------
(* getRuleById: GET /api/v1/rules/:id, requester optional *)

\* '... [Purchase to view full content]'
PurchaseMarker ==
  <<".", ".", ".", " ", "[", "P", "u", "r", "c", "h", "a", "s", "e", " ",
    "t", "o", " ", "v", "i", "e", "w", " ", "f", "u", "l", "l", " ",
    "c", "o", "n", "t", "e", "n", "t", "]">>

\* '[Login and purchase to view content]'
LoginMarker ==
  <<"[", "L", "o", "g", "i", "n", " ", "a", "n", "d", " ", "p", "u", "r",
    "c", "h", "a", "s", "e", " ", "t", "o", " ", "v", "i", "e", "w", " ",
    "c", "o", "n", "t", "e", "n", "t", "]">>

DetailPrefix == 150

\* String.prototype.substring(0, n)
substring(str, n) == SubSeq(str, 1, IF Len(str) < n THEN Len(str) ELSE n)

getRuleById_Start(q, u, r) ==
  /\ Accept(q, [Idle EXCEPT !.op = "getRuleById", !.pc = "findRule",
                            !.user = u, !.rule = r])
  /\ UNCHANGED <<reviews, rules, users, transactions, purchases, notifications, activities, now>>

\* Rule.findById, the visibility check and the view count raised in memory
getRuleById_FindRule(q) ==
  LET rq == reqs[q]
      rule == rules[rq.rule] IN
  /\ rq.op = "getRuleById" /\ rq.pc = "findRule"
  /\ reqs' = IF rule.visibility = "PRIVATE"
                 /\ (rq.user = Undefined \/ rule.author # rq.user)
              THEN Respond(q, "403 Access denied")
              ELSE [reqs EXCEPT ![q].pc = "saveRule",
                                ![q].rdoc = [rule EXCEPT !.statistics.views = @ + 1]]
  /\ UNCHANGED <<reviews, rules, users, transactions, purchases, notifications, activities,
                 now, issued>>

\* variant of getRuleById_SaveRule: the save comes after the masking of the
\* loaded document and writes the masked text of a paid rule with the views
getRuleById_SaveRule_Masked(q) ==
  LET rq == reqs[q] IN
  /\ rq.op = "getRuleById" /\ rq.pc = "saveRule"
  /\ rules' = [rules EXCEPT
                 ![rq.rule].statistics.views = rq.rdoc.statistics.views,
                 ![rq.rule].ruleContent.query =
                    IF rq.rdoc.pricing.isPaid
                    THEN substring(rq.rdoc.ruleContent.query, DetailPrefix)
                           \o PurchaseMarker
                    ELSE @]
  /\ reqs' = Goto(q, "gate")
  /\ UNCHANGED <<reviews, users, transactions, purchases, notifications, activities,
                 now, issued>>

\* rule.save() writes the modified path statistics.views
getRuleById_SaveRule(q) ==
  LET rq == reqs[q] IN
  /\ rq.op = "getRuleById" /\ rq.pc = "saveRule"
  /\ rules' = [rules EXCEPT ![rq.rule].statistics.views = rq.rdoc.statistics.views]
  /\ reqs' = Goto(q, "gate")
  /\ UNCHANGED <<reviews, users, transactions, purchases, notifications, activities,
                 now, issued>>

\* Purchase.exists({user, rule, isActive: true})
hasPurchased(u, r) ==
  \E i \in 1..Len(purchases) :
     purchases[i].user = u /\ purchases[i].rule = r /\ purchases[i].isActive

\* variant of gatedQuery: a requester who is not signed in is given the
\* prefix of the text, as a signed-in requester without a Purchase
gatedQuery_PrefixForAnyone(rdoc, u, r) ==
  IF rdoc.pricing.isPaid
  THEN IF u # Undefined /\ hasPurchased(u, r) THEN rdoc.ruleContent.query
       ELSE substring(rdoc.ruleContent.query, DetailPrefix) \o PurchaseMarker
  ELSE rdoc.ruleContent.query

\* the query text of the response
gatedQuery(rdoc, u, r) ==
  IF rdoc.pricing.isPaid /\ u # Undefined
  THEN IF hasPurchased(u, r) THEN rdoc.ruleContent.query
       ELSE substring(rdoc.ruleContent.query, DetailPrefix) \o PurchaseMarker
  ELSE IF rdoc.pricing.isPaid /\ u = Undefined THEN LoginMarker
  ELSE rdoc.ruleContent.query

\* the purchase lookup, the masking of the loaded document and the response
getRuleById_Gate(q) ==
  LET rq == reqs[q] IN
  /\ rq.op = "getRuleById" /\ rq.pc = "gate"
  /\ reqs' = [Respond(q, "200") EXCEPT
                 ![q].query = gatedQuery(rq.rdoc, rq.user, rq.rule)]
  /\ UNCHANGED <<reviews, rules, users, transactions, purchases, notifications, activities,
                 now, issued>>

getRuleById(q) ==
  \/ \E u \in Users \cup {Undefined}, r \in RuleIds : getRuleById_Start(q, u, r)
  \/ getRuleById_FindRule(q)
  \/ getRuleById_SaveRule(q)
  \/ getRuleById_Gate(q)

----------------------------------------------------------------------------
(* download: POST /api/v1/rules/:id/download, authenticated *)

download_Start(q, u, r) ==
  /\ Accept(q, [Idle EXCEPT !.op = "download", !.pc = "findRule",
                            !.user = u, !.rule = r])
  /\ UNCHANGED <<reviews, rules, users, transactions, purchases, notifications, activities, now>>

isOwner(rdoc, u) == rdoc.author = u

\* Rule.findById and the access check
download_FindRule(q) ==
  LET rq == reqs[q]
      rule == rules[rq.rule] IN
  /\ rq.op = "download" /\ rq.pc = "findRule"
  /\ reqs' = [reqs EXCEPT ![q].rdoc = rule,
                          ![q].pc = IF rule.pricing.isPaid /\ ~isOwner(rule, rq.user)
                                    THEN "findPurchase" ELSE "saveRule"]
  /\ UNCHANGED <<reviews, rules, users, transactions, purchases, notifications, activities,
                 now, issued>>

\* Purchase.findOne returns the first matching document
findPurchase(u, r) ==
  LET found == {i \in 1..Len(purchases) :
                  purchases[i].user = u /\ purchases[i].rule = r /\ purchases[i].isActive}
  IN  IF found = {} THEN 0 ELSE CHOOSE i \in found : \A j \in found : i <= j

download_FindPurchase(q) ==
  LET rq == reqs[q]
      p  == findPurchase(rq.user, rq.rule) IN
  /\ rq.op = "download" /\ rq.pc = "findPurchase"
  /\ reqs' = IF p = 0
              THEN Respond(q, "403 Purchase required to download this rule")
              ELSE [reqs EXCEPT ![q].pc = "savePurchase", ![q].purchase = p,
                                ![q].id = purchases[p].downloads.count + 1]
  /\ UNCHANGED <<reviews, rules, users, transactions, purchases, notifications, activities,
                 now, issued>>

\* purchase.save(): count and lastDownloadedAt are set, the history entry is pushed
download_SavePurchase(q) ==
  LET rq == reqs[q] IN
  /\ rq.op = "download" /\ rq.pc = "savePurchase"
  /\ purchases' = [purchases EXCEPT
                      ![rq.purchase].downloads.count = rq.id,
                      ![rq.purchase].downloads.lastDownloadedAt = now,
                      ![rq.purchase].downloads.history =
                          Append(@, [downloadedAt |-> now])]
  /\ reqs' = Goto(q, "saveRule")
  /\ UNCHANGED <<reviews, rules, users, transactions, notifications, activities, now, issued>>

\* rule.statistics.downloads += 1; rule.save()
download_SaveRule(q) ==
  LET rq == reqs[q] IN
  /\ rq.op = "download" /\ rq.pc = "saveRule"
  /\ rules' = [rules EXCEPT ![rq.rule].statistics.downloads =
                                rq.rdoc.statistics.downloads + 1]
  /\ reqs' = Goto(q, "logActivity")
  /\ UNCHANGED <<reviews, users, transactions, purchases, notifications, activities,
                 now, issued>>

\* Activity.create and the response carrying rule.ruleContent
download_LogActivity(q) ==
  LET rq == reqs[q] IN
  /\ rq.op = "download" /\ rq.pc = "logActivity"
  /\ activities' = activities \cup
       {[user |-> rq.user, type |-> "RULE_DOWNLOADED", target |-> rq.rule]}
  /\ reqs' = [Respond(q, "200") EXCEPT ![q].query = rq.rdoc.ruleContent.query]
  /\ UNCHANGED <<reviews, rules, users, transactions, purchases, notifications, now, issued>>

download(q) ==
  \/ \E u \in Users, r \in RuleIds : download_Start(q, u, r)
  \/ download_FindRule(q)
  \/ download_FindPurchase(q)
  \/ download_SavePurchase(q)
  \/ download_SaveRule(q)
  \/ download_LogActivity(q)

----------------------------------------------------------------------------
(* createReview: POST /api/v1/reviews, authenticated *)

\* the ratings a request may carry: below, at both ends of, and above the range
\* the route's validator accepts
Ratings == {0, 1, 5, 6}

validRating(rating) == rating >= 1 /\ rating <= 5

createReview_Start(q, u, r, rating) ==
  /\ Accept(q, [Idle EXCEPT !.op = "createReview", !.pc = "findRule",
                            !.user = u, !.rule = r, !.rating = rating])
  /\ UNCHANGED <<reviews, rules, users, transactions, purchases, notifications,
                 activities, now>>

\* the route's validators, then Rule.findById and the "is paid" check
createReview_FindRule(q) ==
  LET rq == reqs[q] IN
  /\ rq.op = "createReview" /\ rq.pc = "findRule"
  /\ reqs' = IF ~validRating(rq.rating)
              THEN Respond(q, "400 Validation failed")
              ELSE IF rules[rq.rule].pricing.type = "PAID"
              THEN Goto(q, "findPurchase")
              ELSE Goto(q, "findReview")
  /\ UNCHANGED <<reviews, rules, users, transactions, purchases, notifications,
                 activities, now, issued>>

\* Purchase.findOne({user, rule, isActive: true}); its result is a constant of
\* the block of the "is paid" check
createReview_FindPurchase(q) ==
  LET rq == reqs[q] IN
  /\ rq.op = "createReview" /\ rq.pc = "findPurchase"
  /\ reqs' = IF findPurchase(rq.user, rq.rule) = 0
              THEN Respond(q, "403 You must purchase this rule to leave a review")
              ELSE Goto(q, "findReview")
  /\ UNCHANGED <<reviews, rules, users, transactions, purchases, notifications,
                 activities, now, issued>>

\* variant of existingReview: the lookup never finds a document
existingReview_None(u, r) == FALSE

existingReview(u, r) ==
  \E i \in 1..Len(reviews) : reviews[i].rule = r /\ reviews[i].user = u

\* Review.findOne({rule, user}); then new Review({..., verified: !!hasPurchased})
\* names hasPurchased outside the block that declares it: evaluating it raises
\* a ReferenceError, which asyncHandler passes to errorHandler. review.save(),
\* Activity.create, the recomputation of the rating and the 201 response come
\* after it in the handler and are never run.
createReview_FindReview(q) ==
  LET rq == reqs[q] IN
  /\ rq.op = "createReview" /\ rq.pc = "findReview"
  /\ reqs' = IF existingReview(rq.user, rq.rule)
              THEN Respond(q, "409 You have already reviewed this rule")
              ELSE Respond(q, "500 hasPurchased is not defined")
  /\ UNCHANGED <<reviews, rules, users, transactions, purchases, notifications,
                 activities, now, issued>>

createReview(q) ==
  \/ \E u \in Users, r \in RuleIds, rating \in Ratings :
        createReview_Start(q, u, r, rating)
  \/ createReview_FindRule(q)
  \/ createReview_FindPurchase(q)
  \/ createReview_FindReview(q)

----------------------------------------------------------------------------
(* Environment *)

\* the days at which requests arrive: day 0, and the last day and the day after
\* the refund window of a purchase made on day 0
ClockDays == {RefundWindowDays, RefundWindowDays + 1}

\* time passes between requests
Tick ==
  /\ \A q \in ReqIds : Free(q)
  /\ \E d \in ClockDays : d > now /\ now' = d
  /\ UNCHANGED <<reviews, rules, users, transactions, purchases, notifications, activities,
               reqs, issued>>

\* requests of any number of clients and server processes, interleaved
Next ==
  \/ \E q \in ReqIds : purchaseRule(q)
  \/ \E q \in ReqIds : requestRefund(q)
  \/ \E q \in ReqIds : processRefund(q)

Spec == Init /\ [][Next]_vars

\* one request at a time, over the days
NextSeq ==
  \/ purchaseRule(Slots[1])
  \/ requestRefund(Slots[1])
  \/ processRefund(Slots[1])
  \/ Tick

SpecSeq == Init /\ [][NextSeq]_vars

----------------------------------------------------------------------------
(* deleteRule: DELETE /api/v1/rules/:id, authenticated *)

\* userSchema.methods.hasPermission for the override permissions of the rule
\* routes ("rule:update:any", "rule:delete:any")
hasPermission(u, permission) ==
  \/ users[u].role = "ADMIN"
  \/ users[u].role = "MODERATOR" /\ permission \in {"rule:update:any", "rule:delete:any"}

deleteRule_Start(q, u, r) ==
  /\ Accept(q, [Idle EXCEPT !.op = "deleteRule", !.pc = "loadRule",
                            !.user = u, !.rule = r])
  /\ UNCHANGED <<reviews, rules, users, transactions, purchases, notifications, activities, now>>

\* the route's loadRule and isOwnerOr("rule:delete:any")
deleteRule_LoadRule(q) ==
  LET rq == reqs[q]
      rule == rules[rq.rule] IN
  /\ rq.op = "deleteRule" /\ rq.pc = "loadRule"
  /\ reqs' = IF rule.author # rq.user /\ ~hasPermission(rq.user, "rule:delete:any")
              THEN Respond(q, "403 You can only modify your own resources")
              ELSE Goto(q, "findRule")
  /\ UNCHANGED <<reviews, rules, users, transactions, purchases, notifications, activities,
                 now, issued>>

\* Rule.findById and the handler's own access check
deleteRule_FindRule(q) ==
  LET rq == reqs[q]
      rule == rules[rq.rule] IN
  /\ rq.op = "deleteRule" /\ rq.pc = "findRule"
  /\ reqs' = IF rule.author # rq.user /\ ~hasPermission(rq.user, "rule:delete:any")
              THEN Respond(q, "403 Access denied")
              ELSE Goto(q, "saveRule")
  /\ UNCHANGED <<reviews, rules, users, transactions, purchases, notifications, activities,
                 now, issued>>

\* the soft delete: rule.save() writes isActive and status
deleteRule_SaveRule(q) ==
  LET rq == reqs[q] IN
  /\ rq.op = "deleteRule" /\ rq.pc = "saveRule"
  /\ rules' = [rules EXCEPT ![rq.rule].isActive = FALSE,
                            ![rq.rule].status = "ARCHIVED"]
  /\ reqs' = Respond(q, "200 Rule deleted successfully")
  /\ UNCHANGED <<reviews, users, transactions, purchases, notifications, activities,
                 now, issued>>

deleteRule(q) ==
  \/ \E u \in Users, r \in RuleIds : deleteRule_Start(q, u, r)
  \/ deleteRule_LoadRule(q)
  \/ deleteRule_FindRule(q)
  \/ deleteRule_SaveRule(q)

\* one request at a time, purchases among deletions
NextDelete ==
  \/ purchaseRule(Slots[1])
  \/ deleteRule(Slots[1])

SpecDelete == Init /\ [][NextDelete]_vars

\* an awaited database call of a transactionController handler rejects:
\* asyncHandler hands the error to errorHandler, which answers with status 500
StorageFailure(q) ==
  /\ reqs[q].op \in {"purchaseRule", "requestRefund", "processRefund"}
  /\ ~Free(q)
  /\ reqs' = Respond(q, "500 Internal server error")
  /\ UNCHANGED <<reviews, rules, users, transactions, purchases, notifications, activities,
                 now, issued>>

\* one request at a time, any database call of which may fail
NextFault ==
  \/ purchaseRule(Slots[1])
  \/ requestRefund(Slots[1])
  \/ processRefund(Slots[1])
  \/ StorageFailure(Slots[1])

SpecFault == Init /\ [][NextFault]_vars

\* one request at a time, purchases and refunds among reads and downloads
NextAccess ==
  \/ purchaseRule(Slots[1])
  \/ requestRefund(Slots[1])
  \/ processRefund(Slots[1])
  \/ getRuleById(Slots[1])
  \/ download(Slots[1])

SpecAccess == Init /\ [][NextAccess]_vars

\* purchases and downloads of any number of clients, interleaved
NextDownload ==
  \/ \E q \in ReqIds : purchaseRule(q)
  \/ \E q \in ReqIds : download(q)

SpecDownload == Init /\ [][NextDownload]_vars

\* purchases and reviews, one request at a time
NextReview ==
  \/ purchaseRule(Slots[1])
  \/ createReview(Slots[1])

SpecReview == Init /\ [][NextReview]_vars

----------------------------------------------------------------------------
(* getRules: GET /api/v1/rules, requester optional *)

ListPrefix == 100

getRules_Start(q, u) ==
  /\ Accept(q, [Idle EXCEPT !.op = "getRules", !.pc = "findRules", !.user = u])
  /\ UNCHANGED <<reviews, rules, users, transactions, purchases, notifications,
                 activities, now>>

\* the filter of the listing: approved active rules that are public or, for a
\* signed-in requester, the requester's own
listed(u) ==
  {r \in RuleIds :
     /\ rules[r].status = "APPROVED" /\ rules[r].isActive
     /\ \/ rules[r].visibility = "PUBLIC"
        \/ u # Undefined /\ rules[r].author = u}

\* Rule.find(filter).lean()
getRules_FindRules(q) ==
  LET rq == reqs[q] IN
  /\ rq.op = "getRules" /\ rq.pc = "findRules"
  /\ reqs' = [reqs EXCEPT
                ![q].pc = "countRules",
                ![q].list = {[rule |-> r, isPaid |-> rules[r].pricing.isPaid,
                              query |-> rules[r].ruleContent.query] : r \in listed(rq.user)}]
  /\ UNCHANGED <<reviews, rules, users, transactions, purchases, notifications,
                 activities, now, issued>>

\* Rule.countDocuments(filter)
getRules_CountRules(q) ==
  LET rq == reqs[q] IN
  /\ rq.op = "getRules" /\ rq.pc = "countRules"
  /\ reqs' = Goto(q, "mask")
  /\ UNCHANGED <<reviews, rules, users, transactions, purchases, notifications,
                 activities, now, issued>>

\* variant of listedQuery: any active Purchase of the requester unmasks the
\* entry
listedQuery_AnyPurchase(entry, u) ==
  IF entry.isPaid /\ u # Undefined
  THEN IF \E r \in RuleIds : hasPurchased(u, r) THEN entry.query
       ELSE substring(entry.query, ListPrefix) \o PurchaseMarker
  ELSE IF entry.isPaid /\ u = Undefined THEN LoginMarker
  ELSE entry.query

\* the query text of an entry of the listing
listedQuery(entry, u) ==
  IF entry.isPaid /\ u # Undefined
  THEN IF hasPurchased(u, entry.rule) THEN entry.query
       ELSE substring(entry.query, ListPrefix) \o PurchaseMarker
  ELSE IF entry.isPaid /\ u = Undefined THEN LoginMarker
  ELSE entry.query

\* the purchase lookups of Promise.all, the masking of the entries and the
\* response
getRules_Mask(q) ==
  LET rq == reqs[q] IN
  /\ rq.op = "getRules" /\ rq.pc = "mask"
  /\ reqs' = [Respond(q, "200") EXCEPT
                ![q].list = {[e EXCEPT !.query = listedQuery(e, rq.user)] : e \in rq.list}]
  /\ UNCHANGED <<reviews, rules, users, transactions, purchases, notifications,
                 activities, now, issued>>

getRules(q) ==
  \/ \E u \in Users \cup {Undefined} : getRules_Start(q, u)
  \/ getRules_FindRules(q)
  \/ getRules_CountRules(q)
  \/ getRules_Mask(q)

\* a catalogue of approved public rules: r1 and r2 are paid rules of u1 that
\* differ in their query text only, r3 is a free rule of u2
PublishedCatalogue ==
  [r1 |-> [RuleDoc("u1", "u1", "PAID", Price0_3, TRUE, "PUBLIC", <<"a", "b", "c">>)
             EXCEPT !.status = "APPROVED"],
   r2 |-> [RuleDoc("u1", "u1", "PAID", Price0_3, TRUE, "PUBLIC", <<"d", "e">>)
             EXCEPT !.status = "APPROVED"],
   r3 |-> [RuleDoc("u2", "u2", "FREE", Zero, FALSE, "PUBLIC", <<"f">>)
             EXCEPT !.status = "APPROVED"]]

InitPublished ==
  /\ rules = PublishedCatalogue
  /\ users = [u \in Users |-> UserDoc(role[u])]
  /\ transactions = <<>>
  /\ purchases = <<>>
  /\ reviews = <<>>
  /\ notifications = {}
  /\ activities = {}
  /\ now = 0
  /\ reqs = [q \in ReqIds |-> Idle]
  /\ issued = 0

\* views of single rules and of the listing by any number of clients,
\* interleaved
NextViews ==
  \/ \E q \in ReqIds : getRuleById(q)
  \/ \E q \in ReqIds : getRules(q)

SpecViews == InitPublished /\ [][NextViews]_vars

\* a query text one character longer than the longer of the two prefixes
LongText == [i \in 1..(DetailPrefix + 1) |-> "x"]

\* the catalogue of approved public rules, r1 carrying a long query text
InitLong ==
  /\ rules = [PublishedCatalogue EXCEPT !["r1"].ruleContent.query = LongText]
  /\ users = [u \in Users |-> UserDoc(role[u])]
  /\ transactions = <<>>
  /\ purchases = <<>>
  /\ reviews = <<>>
  /\ notifications = {}
  /\ activities = {}
  /\ now = 0
  /\ reqs = [q \in ReqIds |-> Idle]
  /\ issued = 0

SpecLongViews == InitLong /\ [][NextViews]_vars

\* purchases and listings of any number of clients, interleaved, over the
\* catalogue of approved public rules
NextListing ==
  \/ \E q \in ReqIds : purchaseRule(q)
  \/ \E q \in ReqIds : getRules(q)

SpecListing == InitPublished /\ [][NextListing]_vars

\* the catalogue of approved public rules, r2 carrying the paths of ruleSchema
\* alone: pricing.isPaid and author, neither pricing.type nor creator
InitSchemaPaths ==
  /\ rules = [PublishedCatalogue EXCEPT !["r2"].pricing.type = Undefined,
                                        !["r2"].creator = Undefined]
  /\ users = [u \in Users |-> UserDoc(role[u])]
  /\ transactions = <<>>
  /\ purchases = <<>>
  /\ reviews = <<>>
  /\ notifications = {}
  /\ activities = {}
  /\ now = 0
  /\ reqs = [q \in ReqIds |-> Idle]
  /\ issued = 0

\* single-rule views, listings and purchases, one request at a time
NextGate ==
  \/ getRuleById(Slots[1])
  \/ getRules(Slots[1])
  \/ purchaseRule(Slots[1])

SpecGate == InitSchemaPaths /\ [][NextGate]_vars

----------------------------------------------------------------------------
(* Reviews held by the database: updateReview, deleteReview, markHelpful of *)
(* reviewController and reviewModerationAction of adminController           *)

\* the Reviews of a rule that count for its aggregate:
\* Review.find({rule, isActive: true})
allReviews(r) == {i \in 1..Len(reviews) : reviews[i].rule = r /\ reviews[i].isActive}

\* allReviews.reduce((sum, r) => sum + r.rating, 0)
RECURSIVE sumRatings(_)
sumRatings(S) ==
  IF S = {} THEN 0
  ELSE LET i == CHOOSE j \in S : TRUE IN reviews[i].rating + sumRatings(S \ {i})

\* sum / allReviews.length
avgRating(r) == Quotient(sumRatings(allReviews(r)), Cardinality(allReviews(r)))

ReviewIds == {1, 2}

\* the bodies of an update: a new rating, a new comment, a rating outside the
\* range the route's validator accepts; an absent field is 0 or ""
UpdateBodies ==
  {[rating |-> 2, comment |-> ""], [rating |-> 0, comment |-> "edited"],
   [rating |-> 6, comment |-> ""]}

updateReview_Start(q, u, id, body) ==
  /\ Accept(q, [Idle EXCEPT !.op = "updateReview", !.pc = "findReview",
                            !.user = u, !.id = id, !.rating = body.rating,
                            !.comment = body.comment])
  /\ UNCHANGED <<reviews, rules, users, transactions, purchases, notifications,
                 activities, now>>

\* the route's validators, Review.findById and the ownership check; then the
\* assignments rating || review.rating and comment || review.comment
updateReview_FindReview(q) ==
  LET rq == reqs[q] IN
  /\ rq.op = "updateReview" /\ rq.pc = "findReview"
  /\ reqs' = IF rq.rating # 0 /\ ~validRating(rq.rating)
              THEN Respond(q, "400 Validation failed")
              ELSE IF rq.id > Len(reviews)
              THEN Respond(q, "404 Review not found")
              ELSE IF reviews[rq.id].user # rq.user
              THEN Respond(q, "403 You can only update your own reviews")
              ELSE [reqs EXCEPT
                      ![q].pc = "saveReview",
                      ![q].rule = reviews[rq.id].rule,
                      ![q].vdoc = [reviews[rq.id] EXCEPT
                                     !.rating = IF rq.rating # 0 THEN rq.rating ELSE @,
                                     !.comment = IF rq.comment # "" THEN rq.comment ELSE @]]
  /\ UNCHANGED <<reviews, rules, users, transactions, purchases, notifications,
                 activities, now, issued>>

\* review.save() writes the paths the handler assigned
updateReview_SaveReview(q) ==
  LET rq == reqs[q] IN
  /\ rq.op = "updateReview" /\ rq.pc = "saveReview"
  /\ reviews' = [reviews EXCEPT
                   ![rq.id].rating = IF rq.rating # 0 THEN rq.vdoc.rating ELSE @,
                   ![rq.id].comment = IF rq.comment # "" THEN rq.vdoc.comment ELSE @]
  /\ reqs' = Goto(q, "findRule")
  /\ UNCHANGED <<rules, users, transactions, purchases, notifications,
                 activities, now, issued>>

\* Rule.findById(review.rule); the document is not used
updateReview_FindRule(q) ==
  LET rq == reqs[q] IN
  /\ rq.op = "updateReview" /\ rq.pc = "findRule"
  /\ reqs' = Goto(q, "findReviews")
  /\ UNCHANGED <<reviews, rules, users, transactions, purchases, notifications,
                 activities, now, issued>>

\* Review.find({rule, isActive: true}) and the average of what it returns
updateReview_FindReviews(q) ==
  LET rq == reqs[q] IN
  /\ rq.op = "updateReview" /\ rq.pc = "findReviews"
  /\ reqs' = [reqs EXCEPT ![q].pc = "updateRule", ![q].avg = avgRating(rq.rule)]
  /\ UNCHANGED <<reviews, rules, users, transactions, purchases, notifications,
                 activities, now, issued>>

\* Rule.findByIdAndUpdate(review.rule, {"stats.rating": avgRating})
updateReview_UpdateRule(q) ==
  LET rq == reqs[q] IN
  /\ rq.op = "updateReview" /\ rq.pc = "updateRule"
  /\ rules' = [rules EXCEPT ![rq.rule].stats.rating = rq.avg]
  /\ reqs' = Goto(q, "populate")
  /\ UNCHANGED <<reviews, users, transactions, purchases, notifications,
                 activities, now, issued>>

\* review.populate("user") and the response
updateReview_Populate(q) ==
  LET rq == reqs[q] IN
  /\ rq.op = "updateReview" /\ rq.pc = "populate"
  /\ reqs' = Respond(q, "200 Review updated successfully")
  /\ UNCHANGED <<reviews, rules, users, transactions, purchases, notifications,
                 activities, now, issued>>

updateReview(q) ==
  \/ \E u \in Users, id \in ReviewIds, body \in UpdateBodies :
        updateReview_Start(q, u, id, body)
  \/ updateReview_FindReview(q)
  \/ updateReview_SaveReview(q)
  \/ updateReview_FindRule(q)
  \/ updateReview_FindReviews(q)
  \/ updateReview_UpdateRule(q)
  \/ updateReview_Populate(q)

deleteReview_Start(q, u, id) ==
  /\ Accept(q, [Idle EXCEPT !.op = "deleteReview", !.pc = "findReview",
                            !.user = u, !.id = id])
  /\ UNCHANGED <<reviews, rules, users, transactions, purchases, notifications,
                 activities, now>>

\* variant of mayDelete: any signed-in user may delete
mayDelete_Anyone(u, review) == TRUE

\* the ownership-or-admin check of deleteReview
mayDelete(u, review) == review.user = u \/ users[u].role = "ADMIN"

\* Review.findById and the ownership-or-admin check
deleteReview_FindReview(q) ==
  LET rq == reqs[q] IN
  /\ rq.op = "deleteReview" /\ rq.pc = "findReview"
  /\ reqs' = IF rq.id > Len(reviews)
              THEN Respond(q, "404 Review not found")
              ELSE IF ~mayDelete(rq.user, reviews[rq.id])
              THEN Respond(q, "403 You can only delete your own reviews")
              ELSE [reqs EXCEPT ![q].pc = "saveReview",
                                ![q].rule = reviews[rq.id].rule]
  /\ UNCHANGED <<reviews, rules, users, transactions, purchases, notifications,
                 activities, now, issued>>

\* review.isActive = false; review.save()
deleteReview_SaveReview(q) ==
  LET rq == reqs[q] IN
  /\ rq.op = "deleteReview" /\ rq.pc = "saveReview"
  /\ reviews' = [reviews EXCEPT ![rq.id].isActive = FALSE]
  /\ reqs' = Goto(q, "findReviews")
  /\ UNCHANGED <<rules, users, transactions, purchases, notifications,
                 activities, now, issued>>

\* Review.find({rule, isActive: true}); the average and the number of what it
\* returns, or 0 and 0 when it returns nothing
deleteReview_FindReviews(q) ==
  LET rq == reqs[q]
      n  == Cardinality(allReviews(rq.rule)) IN
  /\ rq.op = "deleteReview" /\ rq.pc = "findReviews"
  /\ reqs' = [reqs EXCEPT ![q].pc = "updateRule",
                          ![q].avg = IF n > 0 THEN avgRating(rq.rule) ELSE Whole(0),
                          ![q].count = n]
  /\ UNCHANGED <<reviews, rules, users, transactions, purchases, notifications,
                 activities, now, issued>>

\* Rule.findByIdAndUpdate(review.rule, {"stats.rating", "stats.reviewCount"})
\* and the response
deleteReview_UpdateRule(q) ==
  LET rq == reqs[q] IN
  /\ rq.op = "deleteReview" /\ rq.pc = "updateRule"
  /\ rules' = [rules EXCEPT ![rq.rule].stats.rating = rq.avg,
                            ![rq.rule].stats.reviewCount = rq.count]
  /\ reqs' = Respond(q, "200 Review deleted successfully")
  /\ UNCHANGED <<reviews, users, transactions, purchases, notifications,
                 activities, now, issued>>

deleteReview(q) ==
  \/ \E u \in Users, id \in ReviewIds : deleteReview_Start(q, u, id)
  \/ deleteReview_FindReview(q)
  \/ deleteReview_SaveReview(q)
  \/ deleteReview_FindReviews(q)
  \/ deleteReview_UpdateRule(q)

ModerationActions == {"approve", "remove"}

\* POST /api/v1/admin/reviews/:reviewId/action behind authenticate and
\* hasRole("ADMIN")
reviewModerationAction_Start(q, u, id, action) ==
  /\ Accept(q, IF hasRole(u, "ADMIN")
               THEN [Idle EXCEPT !.op = "reviewModerationAction",
                                 !.pc = "findReview", !.user = u, !.id = id,
                                 !.action = action]
               ELSE [Idle EXCEPT !.op = "reviewModerationAction", !.pc = "done",
                                 !.user = u, !.id = id, !.action = action,
                                 !.result = "403 Insufficient permissions"])
  /\ UNCHANGED <<reviews, rules, users, transactions, purchases, notifications,
                 activities, now>>

\* Review.findById
reviewModerationAction_FindReview(q) ==
  LET rq == reqs[q] IN
  /\ rq.op = "reviewModerationAction" /\ rq.pc = "findReview"
  /\ reqs' = IF rq.id > Len(reviews)
              THEN Respond(q, "404 Review not found")
              ELSE Goto(q, "saveReview")
  /\ UNCHANGED <<reviews, rules, users, transactions, purchases, notifications,
                 activities, now, issued>>

\* review.isActive = false or review.reported = false; review.save() and the
\* response
reviewModerationAction_SaveReview(q) ==
  LET rq == reqs[q] IN
  /\ rq.op = "reviewModerationAction" /\ rq.pc = "saveReview"
  /\ reviews' = IF rq.action = "remove"
                 THEN [reviews EXCEPT ![rq.id].isActive = FALSE]
                 ELSE [reviews EXCEPT ![rq.id].reported = FALSE]
  /\ reqs' = Respond(q, "200 Review " \o rq.action \o "d successfully")
  /\ UNCHANGED <<rules, users, transactions, purchases, notifications,
                 activities, now, issued>>

reviewModerationAction(q) ==
  \/ \E u \in Users, id \in ReviewIds, action \in ModerationActions :
        reviewModerationAction_Start(q, u, id, action)
  \/ reviewModerationAction_FindReview(q)
  \/ reviewModerationAction_SaveReview(q)

\* the position of u in a list of users, 0 when absent (indexOf + 1)
indexOf(list, u) ==
  IF \E i \in 1..Len(list) : list[i] = u
  THEN CHOOSE i \in 1..Len(list) : list[i] = u /\ \A j \in 1..(i - 1) : list[j] # u
  ELSE 0

\* list.splice(i, 1)
splice(list, i) == SubSeq(list, 1, i - 1) \o SubSeq(list, i + 1, Len(list))

markHelpful_Start(q, u, id, helpful) ==
  /\ Accept(q, [Idle EXCEPT !.op = "markHelpful", !.pc = "findReview",
                            !.user = u, !.id = id, !.helpful = helpful])
  /\ UNCHANGED <<reviews, rules, users, transactions, purchases, notifications,
                 activities, now>>

\* variant of toggleHelpful: the mark is added without looking for the user
toggleHelpful_NoLookup(h, u, helpful) ==
  IF helpful
  THEN [count |-> h.count + 1, users |-> Append(h.users, u)]
  ELSE IF indexOf(h.users, u) # 0
  THEN [count |-> h.count - 1, users |-> splice(h.users, indexOf(h.users, u))]
  ELSE h

\* the branch of markHelpful on helpful and on the user's presence in
\* helpful.users
toggleHelpful(h, u, helpful) ==
  LET userIndex == indexOf(h.users, u)
      isHelpful == userIndex # 0 IN
  IF helpful /\ ~isHelpful
  THEN [count |-> h.count + 1, users |-> Append(h.users, u)]
  ELSE IF ~helpful /\ isHelpful
  THEN [count |-> h.count - 1, users |-> splice(h.users, userIndex)]
  ELSE h

\* the update the loaded document holds for helpful.users once the branch has
\* turned helpful from old to new: push registers a $push of the user, splice
\* a $set of the whole array, and an untouched array registers nothing
atomicOf(old, new) ==
  IF new = old THEN ""
  ELSE IF Len(new.users) > Len(old.users) THEN "$push"
  ELSE "$set"

\* Review.findById, then the toggle on the loaded document
markHelpful_FindReview(q) ==
  LET rq == reqs[q] IN
  /\ rq.op = "markHelpful" /\ rq.pc = "findReview"
  /\ reqs' = IF rq.id > Len(reviews)
              THEN Respond(q, "404 Review not found")
              ELSE [reqs EXCEPT
                      ![q].pc = "saveReview",
                      ![q].action = atomicOf(reviews[rq.id].helpful,
                                             toggleHelpful(reviews[rq.id].helpful,
                                                           rq.user, rq.helpful)),
                      ![q].vdoc = [reviews[rq.id] EXCEPT
                                     !.helpful = toggleHelpful(@, rq.user, rq.helpful)]]
  /\ UNCHANGED <<reviews, rules, users, transactions, purchases, notifications,
                 activities, now, issued>>

\* review.save() and the response.  The update sets helpful.count to the
\* value computed on the loaded document.  After a push it appends the user to
\* the stored helpful.users and increments the version key; after a splice it
\* sets the whole array, on the condition that the stored version key is the
\* loaded one, and fails with a VersionError otherwise.  An unmodified document
\* is not written.
markHelpful_SaveReview(q) ==
  LET rq == reqs[q]
      stored == reviews[rq.id]
      stale == rq.action = "$set" /\ stored.__v # rq.vdoc.__v IN
  /\ rq.op = "markHelpful" /\ rq.pc = "saveReview"
  /\ reviews' =
       IF rq.action = "$push"
       THEN [reviews EXCEPT
               ![rq.id].helpful = [count |-> rq.vdoc.helpful.count,
                                   users |-> Append(stored.helpful.users, rq.user)],
               ![rq.id].__v = @ + 1]
       ELSE IF rq.action = "$set" /\ ~stale
       THEN [reviews EXCEPT ![rq.id].helpful = rq.vdoc.helpful,
                            ![rq.id].__v = @ + 1]
       ELSE reviews
  /\ reqs' = Respond(q, IF stale THEN "500 No matching document found"
                        ELSE IF rq.helpful THEN "200 Marked as helpful"
                        ELSE "200 Removed helpful mark")
  /\ UNCHANGED <<rules, users, transactions, purchases, notifications,
                 activities, now, issued>>

markHelpful(q) ==
  \/ \E u \in Users, id \in ReviewIds, helpful \in BOOLEAN :
        markHelpful_Start(q, u, id, helpful)
  \/ markHelpful_FindReview(q)
  \/ markHelpful_SaveReview(q)

\* the rule the stored Reviews are about: free, public, written by u1
ReviewedRule == "r3"

FreeRule(rating, reviewCount) ==
  [RuleDoc("u1", "u1", "FREE", Zero, FALSE, "PUBLIC", <<"f">>) EXCEPT
     !.stats.rating = rating, !.stats.reviewCount = reviewCount]

\* what the reviews collection may hold when the server starts
StoredReviews ==
  LET first  == ReviewDoc(ReviewedRule, "u2", 5, "fine", FALSE)
      second == ReviewDoc(ReviewedRule, "adm", 1, "poor", FALSE) IN
  {<<>>, <<first>>, <<first, second>>}

\* a database that holds Reviews, each rule's aggregate being that of its
\* Reviews
InitStored ==
  /\ reviews \in StoredReviews
  /\ rules = [Catalogue EXCEPT
                ![ReviewedRule] =
                   FreeRule(IF Len(reviews) = 0 THEN Whole(0)
                            ELSE avgRating(ReviewedRule), Len(reviews))]
  /\ users = [u \in Users |-> UserDoc(role[u])]
  /\ transactions = <<>>
  /\ purchases = <<>>
  /\ notifications = {}
  /\ activities = {}
  /\ now = 0
  /\ reqs = [q \in ReqIds |-> Idle]
  /\ issued = 0

\* review requests, one at a time
NextReviews ==
  \/ createReview(Slots[1])
  \/ updateReview(Slots[1])
  \/ deleteReview(Slots[1])
  \/ reviewModerationAction(Slots[1])

SpecReviews == InitStored /\ [][NextReviews]_vars

\* helpful marks, one request at a time
NextHelpful == markHelpful(Slots[1])

SpecHelpful == InitStored /\ [][NextHelpful]_vars

\* helpful marks of any number of clients, interleaved
NextHelpfulConcurrent == \E q \in ReqIds : markHelpful(q)

SpecHelpfulConcurrent == InitStored /\ [][NextHelpfulConcurrent]_vars

\* updates and deletions of Reviews of any number of clients, interleaved
NextReviewsConcurrent ==
  \/ \E q \in ReqIds : updateReview(q)
  \/ \E q \in ReqIds : deleteReview(q)

SpecReviewsConcurrent == InitStored /\ [][NextReviewsConcurrent]_vars

\* submissions for the reviewed rule and updates of its Reviews, of any number
\* of clients, interleaved
NextSubmit ==
  \/ \E q \in ReqIds, u \in Users :
        createReview_Start(q, u, ReviewedRule, 5)
  \/ \E q \in ReqIds : createReview_FindRule(q)
  \/ \E q \in ReqIds : createReview_FindReview(q)
  \/ \E q \in ReqIds, u \in Users, id \in ReviewIds :
        updateReview_Start(q, u, id, [rating |-> 0, comment |-> "edited"])
  \/ \E q \in ReqIds : updateReview_FindReview(q)
  \/ \E q \in ReqIds : updateReview_SaveReview(q)
  \/ \E q \in ReqIds : updateReview_FindRule(q)
  \/ \E q \in ReqIds : updateReview_FindReviews(q)
  \/ \E q \in ReqIds : updateReview_UpdateRule(q)
  \/ \E q \in ReqIds : updateReview_Populate(q)

SpecSubmit == InitStored /\ [][NextSubmit]_vars

----------------------------------------------------------------------------
(* Properties of the ledger under concurrent requests (Spec) *)

\* C1: for every (buyer, rule) pair at most one Purchase with isActive = true
\* exists, whatever the interleaving of purchase requests
C1_AtMostOneActivePurchase ==
  \A i, j \in DOMAIN purchases :
     ( /\ purchases[i].user = purchases[j].user
       /\ purchases[i].rule = purchases[j].rule
       /\ purchases[i].isActive /\ purchases[j].isActive ) => i = j

\* C3: once the stored status of a Transaction is REFUNDED no step of any
\* request changes it again
C3_RefundedIsTerminal ==
  [][\A id \in DOMAIN transactions :
        transactions[id].status = "REFUNDED" =>
           transactions'[id].status = "REFUNDED"]_vars

RECURSIVE SoldBy(_, _)
\* the sum of sellerEarnings over the first n transactions sold by s
SoldBy(s, n) ==
  IF n = 0 THEN Zero
  ELSE IF transactions[n].seller = s
       THEN FAdd(SoldBy(s, n - 1), transactions[n].sellerEarnings)
       ELSE SoldBy(s, n - 1)

Resolved == {"200 Refund processed", "200 Refund denied"}

\* C4: two resolveRefund calls that overlap on one Transaction are never both
\* answered with success, and a seller's earnings are lowered by a
\* Transaction's sellerEarnings at most once
C4_RefundResolvedOnce ==
  /\ \A q1, q2 \in ReqIds :
        ( /\ q1 # q2
          /\ reqs[q1].op = "processRefund" /\ reqs[q2].op = "processRefund"
          /\ reqs[q1].id = reqs[q2].id
          /\ reqs[q1].result \in Resolved ) => reqs[q2].result \notin Resolved
  /\ \A s \in Users :
        ~FAdd(users[s].statistics.earnings, SoldBy(s, Len(transactions))).neg

----------------------------------------------------------------------------
(* Properties of single requests (SpecSeq) *)

\* C2: every stored Transaction satisfies platformFee + sellerEarnings =
\* amount, from the state purchase wrote it in through every later state
C2_FeePlusEarningsIsAmount ==
  \A id \in DOMAIN transactions :
     FAdd(transactions[id].platformFee, transactions[id].sellerEarnings)
        = transactions[id].amount

\* the step taken is a step of the request in slot q
StepOf(q) == reqs'[q] # reqs[q]

\* the amounts of the stored transaction id stay as they are
AmountsKept(id) ==
  /\ transactions'[id].amount = transactions[id].amount
  /\ transactions'[id].platformFee = transactions[id].platformFee
  /\ transactions'[id].sellerEarnings = transactions[id].sellerEarnings

\* C5: resolveRefund(id, approved = true) on a DISPUTED Transaction stores the
\* status REFUNDED and lowers statistics.totalEarnings of the seller's User
\* record by exactly the Transaction's sellerEarnings, every other user's
\* record staying as it is
C5_ApprovalReversesEarnings ==
  [][\A q \in ReqIds :
       LET rq == reqs[q] IN
       (StepOf(q) /\ rq.op = "processRefund" /\ rq.approved /\ rq.pc # "done"
          /\ rq.id \in DOMAIN transactions) =>
         LET t == transactions[rq.id] IN
         /\ (rq.pc = "findTransaction" /\ t.status = "DISPUTED") =>
               reqs'[q].pc # "done"
         /\ rq.pc = "updateSeller" =>
               /\ users'[t.seller].statistics.totalEarnings =
                     FSub(users[t.seller].statistics.totalEarnings, t.sellerEarnings)
               /\ \A u \in Users \ {t.seller} : users'[u] = users[u]
         /\ rq.pc # "updateSeller" => users' = users
         /\ reqs'[q].pc = "done" /\ rq.pc # "findTransaction" =>
               transactions'[rq.id].status = "REFUNDED"]_vars

\* C6: resolveRefund(id, approved = false) on a DISPUTED Transaction stores the
\* status COMPLETED and changes no user's earnings, none of the Transaction's
\* amounts and no Purchase
C6_DenialRestoresCompleted ==
  [][\A q \in ReqIds :
       LET rq == reqs[q] IN
       (StepOf(q) /\ rq.op = "processRefund" /\ ~rq.approved /\ rq.pc # "done"
          /\ rq.id \in DOMAIN transactions
          /\ (rq.pc = "findTransaction" => transactions[rq.id].status = "DISPUTED")) =>
         /\ users' = users
         /\ purchases' = purchases
         /\ DOMAIN transactions' = DOMAIN transactions
         /\ AmountsKept(rq.id)
         /\ rq.pc = "findTransaction" => reqs'[q].pc # "done"
         /\ reqs'[q].pc = "done" =>
               /\ reqs'[q].result = "200 Refund denied"
               /\ transactions'[rq.id].status = "COMPLETED"]_vars

\* a denial has been answered and the transaction is COMPLETED again
C6_Witness ==
  \E q \in ReqIds :
     /\ reqs[q].op = "processRefund" /\ ~reqs[q].approved
     /\ reqs[q].result = "200 Refund denied"
     /\ transactions[reqs[q].id].status = "COMPLETED"
     /\ transactions[reqs[q].id].metadata.refundRequestedBy # Undefined

\* C7: resolveRefund on a Transaction whose status is not DISPUTED is refused
\* as an invalid state, for either value of approved, and changes neither the
\* Transaction nor any user's earnings
C7_NotDisputedIsRefused ==
  [][\A q \in ReqIds :
       LET rq == reqs[q] IN
       (StepOf(q) /\ rq.op = "processRefund" /\ rq.pc = "findTransaction"
          /\ rq.id \in DOMAIN transactions
          /\ transactions[rq.id].status # "DISPUTED") =>
         /\ reqs'[q].pc = "done"
         /\ reqs'[q].result = "400 Only disputed transactions can be refunded"
         /\ transactions' = transactions
         /\ users' = users]_vars

\* an approval of a transaction that is already REFUNDED has been refused
C7_Witness ==
  \E q \in ReqIds :
     /\ reqs[q].op = "processRefund" /\ reqs[q].approved
     /\ reqs[q].result = "400 Only disputed transactions can be refunded"
     /\ transactions[reqs[q].id].status = "REFUNDED"
     /\ users[transactions[reqs[q].id].seller].statistics.earnings =
           FNeg(transactions[reqs[q].id].sellerEarnings)

\* the request that arrives in slot q with this step
Arrives(q, op) == StepOf(q) /\ issued' = issued + 1 /\ reqs'[q].op = op

\* the steps of a buyer's requestRefund after the arrival: on a COMPLETED
\* Transaction the request goes on to store DISPUTED and is answered with
\* success when at most 30 days have elapsed since the creation, and is
\* refused as outside the window, the Transaction staying as it is, otherwise
C8_WindowDecides(q) ==
  LET rq == reqs[q] IN
  (StepOf(q) /\ rq.op = "requestRefund" /\ rq.pc # "done"
     /\ rq.id \in DOMAIN transactions
     /\ transactions[rq.id].buyer = rq.user
     /\ (rq.pc = "findTransaction" => transactions[rq.id].status = "COMPLETED")) =>
    LET t == transactions[rq.id] IN
    /\ (rq.pc = "findTransaction" /\ now - t.createdAt <= 30) =>
          reqs'[q].pc # "done" /\ transactions' = transactions
    /\ (rq.pc = "findTransaction" /\ now - t.createdAt > 30) =>
          /\ reqs'[q].pc = "done"
          /\ reqs'[q].result = "400 Refund requests can only be made within 30 days"
          /\ transactions' = transactions
    /\ rq.pc = "saveTransaction" => transactions'[rq.id].status = "DISPUTED"
    /\ (rq.pc # "findTransaction" /\ reqs'[q].pc = "done") =>
          /\ reqs'[q].result = "200 Refund request submitted successfully"
          /\ transactions'[rq.id].status = "DISPUTED"

C9_NotBuyerOrNotCompleted ==
  [][\A q \in ReqIds :
       /\ ( /\ Arrives(q, "requestRefund")
            /\ reqs'[q].id \in DOMAIN transactions
            /\ \/ transactions[reqs'[q].id].buyer # reqs'[q].user
               \/ transactions[reqs'[q].id].status # "COMPLETED" ) =>
             /\ transactions' = transactions
             /\ reqs'[q].pc = "done" => reqs'[q].result = "400 Refund reason is required"
       /\ LET rq == reqs[q] IN
          ( /\ StepOf(q) /\ rq.op = "requestRefund" /\ rq.pc = "findTransaction"
            /\ rq.id \in DOMAIN transactions
            /\ \/ transactions[rq.id].buyer # rq.user
               \/ transactions[rq.id].status # "COMPLETED" ) =>
             /\ reqs'[q].pc = "done"
             /\ reqs'[q].result =
                   IF transactions[rq.id].buyer # rq.user
                   THEN "403 Only the buyer can request a refund"
                   ELSE "400 Refund can only be requested for completed transactions"
             /\ transactions' = transactions]_vars

\* an admin's refund request for a purchase of another user has been refused
C9_Witness ==
  \E q \in ReqIds :
     /\ reqs[q].op = "requestRefund"
     /\ reqs[q].result = "403 Only the buyer can request a refund"
     /\ users[reqs[q].user].role = "ADMIN"
     /\ transactions[reqs[q].id].status = "COMPLETED"
     /\ transactions[reqs[q].id].metadata.refundRequestedBy = Undefined

----------------------------------------------------------------------------
(* Properties of the content gate and the download route (SpecAccess) *)

\* purchase(b, r) has been answered with success
purchaseSucceeded(b, r) ==
  \E n \in notifications :
     /\ n.recipient = b /\ n.title = "Purchase successful"
     /\ transactions[n.id].buyer = b /\ transactions[n.id].rule = r

\* C10: once purchase(b, r) has succeeded, every later read of r by b through
\* the content gate is answered with r's full query text and every later
\* download of r by b is permitted
C10_PurchaseGrantsAccess ==
  [][\A q \in ReqIds :
       LET rq == reqs[q] IN
       ( /\ StepOf(q) /\ rq.op \in {"getRuleById", "download"} /\ rq.pc # "done"
         /\ rq.user # Undefined
         /\ purchaseSucceeded(rq.user, rq.rule)
         /\ reqs'[q].pc = "done" ) =>
           /\ reqs'[q].result = "200"
           /\ reqs'[q].query = rules[rq.rule].ruleContent.query]_vars

----------------------------------------------------------------------------
(* Properties of purchase preconditions (SpecSeq) *)

\* C11: a purchase that fails a precondition (the rule is not paid, the buyer
\* holds an active Purchase of the rule, the buyer owns the rule) is refused
\* with the matching error and writes no Transaction and no Purchase and
\* leaves the Rule as it is; no stored Transaction has its buyer as seller
C11_RefusedPurchaseWritesNothing ==
  [][ /\ \A q \in ReqIds :
           LET rq == reqs[q] IN
           (StepOf(q) /\ rq.op = "purchaseRule"
              /\ rq.pc \in {"findRule", "findPurchase"}) =>
             LET owned == \E i \in DOMAIN purchases :
                             /\ purchases[i].user = rq.user
                             /\ purchases[i].rule = rq.rule
                             /\ purchases[i].isActive
             IN
             /\ (rq.pc = "findRule" /\ rules[rq.rule].pricing.type # "PAID") =>
                   /\ reqs'[q].pc = "done"
                   /\ reqs'[q].result = "400 This rule is not for sale"
             /\ (rq.pc = "findPurchase" /\ owned) =>
                   /\ reqs'[q].pc = "done"
                   /\ reqs'[q].result = "409 You have already purchased this rule"
             /\ (rq.pc = "findPurchase" /\ ~owned
                   /\ rules[rq.rule].creator = rq.user) =>
                   /\ reqs'[q].pc = "done"
                   /\ reqs'[q].result = "400 You cannot purchase your own rule"
             /\ reqs'[q].pc = "done" =>
                   /\ transactions' = transactions
                   /\ purchases' = purchases
                   /\ rules' = rules
      /\ \A id \in DOMAIN transactions' :
            transactions'[id].buyer # transactions'[id].seller ]_vars

\* a second purchase of a rule by its buyer has been refused, one Transaction
\* and one Purchase stored
C11_Witness ==
  \E q \in ReqIds :
     /\ reqs[q].op = "purchaseRule"
     /\ reqs[q].result = "409 You have already purchased this rule"
     /\ Len(transactions) = 1 /\ Len(purchases) = 1
     /\ purchases[1].user = reqs[q].user /\ purchases[1].rule = reqs[q].rule
     /\ rules[reqs[q].rule].stats.purchases = 1

----------------------------------------------------------------------------
(* Properties under failing database calls (SpecFault) *)

\* C12: whenever no request is in flight, every COMPLETED Transaction has
\* exactly one Purchase referencing it and every Purchase references a stored
\* Transaction of the same buyer and rule, whichever database call of a
\* purchase has failed
C12_NothingPartiallyWritten ==
  (\A q \in ReqIds : Free(q)) =>
    /\ \A id \in DOMAIN transactions :
          transactions[id].status = "COMPLETED" =>
             Cardinality({i \in DOMAIN purchases : purchases[i].transaction = id}) = 1
    /\ \A i \in DOMAIN purchases :
          /\ purchases[i].transaction \in DOMAIN transactions
          /\ transactions[purchases[i].transaction].buyer = purchases[i].user
          /\ transactions[purchases[i].transaction].rule = purchases[i].rule

NotifySteps == {"notifySeller", "notifyBuyer", "notify", "notifyDenied"}

\* C13: a request of purchase, requestRefund or resolveRefund that has come to
\* a notification is answered with success and, for the refund operations,
\* with the status it set stored on the Transaction, whether or not the
\* notification could be written
C13_NotificationFailureIsSwallowed ==
  [][\A q \in ReqIds :
       LET rq == reqs[q] IN
       (StepOf(q) /\ rq.pc \in NotifySteps /\ reqs'[q].pc = "done") =>
         /\ reqs'[q].result \in
               {"201 Purchase completed successfully",
                "200 Refund request submitted successfully",
                "200 Refund processed", "200 Refund denied"}
         /\ rq.op \in {"requestRefund", "processRefund"} =>
               transactions'[rq.id].status = rq.tdoc.status]_vars

----------------------------------------------------------------------------
(* Properties of purchases of deleted rules (SpecDelete) *)

\* C14: a purchase of a paid rule that has been soft-deleted (isActive =
\* false) is refused as not purchasable and writes no Transaction and no
\* Purchase
C14_InactiveRuleIsNotSold ==
  [][\A q \in ReqIds :
       LET rq == reqs[q] IN
       (StepOf(q) /\ rq.op = "purchaseRule" /\ rq.pc # "done"
          /\ rules[rq.rule].pricing.type = "PAID"
          /\ ~rules[rq.rule].isActive) =>
         /\ rq.pc = "findRule" =>
               /\ reqs'[q].pc = "done"
               /\ reqs'[q].result = "400 This rule is not for sale"
         /\ transactions' = transactions
         /\ purchases' = purchases]_vars

----------------------------------------------------------------------------
(* Properties of the rule's sales statistics (Spec) *)

RECURSIVE SalesOf(_, _)
\* the number of the first n transactions that are sales of rule r
SalesOf(r, n) ==
  IF n = 0 THEN 0
  ELSE SalesOf(r, n - 1) + (IF transactions[n].rule = r THEN 1 ELSE 0)

RECURSIVE RevenueOf(_, _)
\* the sum of the amounts of the first n transactions that are sales of r
RevenueOf(r, n) ==
  IF n = 0 THEN Zero
  ELSE IF transactions[n].rule = r
       THEN FAdd(RevenueOf(r, n - 1), transactions[n].amount)
       ELSE RevenueOf(r, n - 1)

\* C15: whenever no purchase is in flight, the purchases statistic of every
\* rule sold to buyers that differ from one another equals the number of
\* Transactions created for it and its revenue statistic the sum of their
\* amounts, however the purchases interleaved
C15_NoSaleIsLost ==
  ( /\ \A q \in ReqIds : Free(q)
    /\ \A i, j \in DOMAIN transactions :
          ( /\ transactions[i].rule = transactions[j].rule
            /\ transactions[i].buyer = transactions[j].buyer ) => i = j ) =>
     \A r \in RuleIds :
        /\ rules[r].stats.purchases = SalesOf(r, Len(transactions))
        /\ rules[r].stats.revenue = RevenueOf(r, Len(transactions))

----------------------------------------------------------------------------
(* Properties of the fee split (SpecSeq) *)

\* Math.round of a Number that is not negative: the nearest whole unit, a
\* half going up
RoundUnit(x) ==
  LET whole == BShr(x.mag, FracBits)
      half  == BitAt(x.mag, FracBits) = 1
  IN  Num(FALSE, BShl(IF half THEN BAdd(whole, <<1>>) ELSE whole, FracBits))

\* C16: the platformFee stored on every Transaction is 10% of the amount
\* rounded to the nearest whole currency unit, and sellerEarnings is the
\* amount less that fee
C16_FeeIsRoundedTenth ==
  \A id \in DOMAIN transactions :
     LET t == transactions[id] IN
     /\ t.platformFee = RoundUnit(FMul(t.amount, platformFeePercent))
     /\ t.sellerEarnings = FSub(t.amount, t.platformFee)

----------------------------------------------------------------------------
(* Properties of entitlements after a refund (SpecAccess) *)

\* a purchase of rule r by b has been refunded
Refunded(b, r) ==
  \E id \in DOMAIN transactions :
     /\ transactions[id].buyer = b /\ transactions[id].rule = r
     /\ transactions[id].status = "REFUNDED"

\* C17: resolveRefund changes no Purchase, so the Purchase of a REFUNDED
\* Transaction stays active: the buyer's later purchase of the same rule is
\* refused as already owned, a download is permitted and the content gate,
\* once past the visibility check, returns the full query text
C17_RefundKeepsEntitlement ==
  [][ /\ \A q \in ReqIds :
           LET rq == reqs[q] IN
           (StepOf(q) /\ rq.pc # "done") =>
             /\ rq.op = "processRefund" => purchases' = purchases
             /\ (rq.op = "purchaseRule" /\ rq.pc = "findPurchase"
                   /\ Refunded(rq.user, rq.rule)) =>
                   /\ reqs'[q].pc = "done"
                   /\ reqs'[q].result = "409 You have already purchased this rule"
             /\ (rq.op = "download" /\ Refunded(rq.user, rq.rule)
                   /\ reqs'[q].pc = "done") =>
                   /\ reqs'[q].result = "200"
                   /\ reqs'[q].query = rules[rq.rule].ruleContent.query
             /\ (rq.op = "getRuleById" /\ rq.pc = "gate" /\ rq.user # Undefined
                   /\ Refunded(rq.user, rq.rule)) =>
                   /\ reqs'[q].result = "200"
                   /\ reqs'[q].query = rules[rq.rule].ruleContent.query
      /\ \A i \in DOMAIN purchases' :
            transactions'[purchases'[i].transaction].status = "REFUNDED" =>
               purchases'[i].isActive ]_vars

\* after the refund of its purchase the buyer's new purchase of the rule has
\* been refused as already owned
C17_Witness ==
  \E q \in ReqIds :
     /\ reqs[q].op = "purchaseRule"
     /\ reqs[q].result = "409 You have already purchased this rule"
     /\ \E i \in DOMAIN purchases :
           /\ purchases[i].user = reqs[q].user /\ purchases[i].rule = reqs[q].rule
           /\ purchases[i].isActive
           /\ transactions[purchases[i].transaction].status = "REFUNDED"

----------------------------------------------------------------------------
(* Properties of the access decision (SpecAccess) *)

\* the user owns the rule, or the rule is free, or an active Purchase of the
\* rule by the user is stored
EntitledTo(u, r) ==
  \/ rules[r].author = u
  \/ ~rules[r].pricing.isPaid
  \/ \E i \in DOMAIN purchases :
        purchases[i].user = u /\ purchases[i].rule = r /\ purchases[i].isActive

\* C18: a signed-in user is given the full content of a rule, by a download
\* and by the content gate once past the visibility check, exactly when the
\* user owns the rule, or the rule is free, or the user holds an active
\* Purchase of it
C18_AccessIffEntitled ==
  [][\A q \in ReqIds :
       LET rq == reqs[q]
           full == /\ reqs'[q].result = "200"
                   /\ reqs'[q].query = rules[rq.rule].ruleContent.query
       IN
       (StepOf(q) /\ rq.pc # "done" /\ reqs'[q].pc = "done"
          /\ rq.user # Undefined) =>
         /\ rq.op = "download" => (full <=> EntitledTo(rq.user, rq.rule))
         /\ (rq.op = "getRuleById" /\ reqs'[q].result = "200") =>
               (full <=> EntitledTo(rq.user, rq.rule))]_vars

----------------------------------------------------------------------------
(* Properties of the download log (SpecDownload) *)

\* the history of purchase i after the step is the history before it with
\* entries added at its end
HistoryExtended(i) ==
  LET old == purchases[i].downloads.history
      new == purchases'[i].downloads.history IN
  /\ Len(new) >= Len(old)
  /\ SubSeq(new, 1, Len(old)) = old

\* C19: once every download request has been answered, downloads.count of each
\* Purchase is the length of its downloads.history; no step removes or rewrites
\* a history entry; and a download refused for want of a Purchase changes no
\* Purchase and not the rule's download counter
C19_DownloadLogIsCounted ==
  /\ []((\A q \in ReqIds : Free(q)) =>
          \A i \in DOMAIN purchases :
             purchases[i].downloads.count = Len(purchases[i].downloads.history))
  /\ [][/\ \A i \in DOMAIN purchases : HistoryExtended(i)
        /\ \A q \in ReqIds :
             (StepOf(q) /\ reqs[q].op = "download"
                /\ reqs'[q].result = "403 Purchase required to download this rule") =>
               /\ purchases' = purchases
               /\ rules' = rules]_vars

----------------------------------------------------------------------------
(* Properties of reviews (SpecReview) *)

ActiveReviews(coll, u, r) ==
  {i \in DOMAIN coll : coll[i].user = u /\ coll[i].rule = r /\ coll[i].isActive}

\* C20: a review submitted with a rating from 1 to 5 by a user who has not
\* reviewed the rule, for a rule that is free or of which the user holds an
\* active Purchase, is answered 201 and leaves exactly one active Review of
\* the rule by the user
C20_SubmitPersistsReview ==
  [][\A q \in ReqIds :
       LET rq == reqs[q] IN
       (/\ StepOf(q) /\ rq.op = "createReview"
        /\ rq.pc # "done" /\ reqs'[q].pc = "done"
        /\ rq.rating >= 1 /\ rq.rating <= 5
        /\ \/ rules[rq.rule].pricing.type # "PAID" /\ ~rules[rq.rule].pricing.isPaid
           \/ \E i \in DOMAIN purchases :
                 /\ purchases[i].user = rq.user /\ purchases[i].rule = rq.rule
                 /\ purchases[i].isActive
        /\ ~\E i \in DOMAIN reviews :
                reviews[i].user = rq.user /\ reviews[i].rule = rq.rule) =>
         /\ reqs'[q].result = "201 Review created successfully"
         /\ Cardinality(ActiveReviews(reviews', rq.user, rq.rule)) = 1]_vars

----------------------------------------------------------------------------
(* Properties of the rating aggregate (SpecReviews, SpecReviewsConcurrent) *)

\* the rule's stored aggregate is that of its active Reviews: their mean and
\* their number, 0 and 0 when there is none
AggregateIsCurrent(r) ==
  LET active == {i \in DOMAIN reviews : reviews[i].rule = r /\ reviews[i].isActive}
      n == Cardinality(active) IN
  /\ rules[r].stats.reviewCount = n
  /\ rules[r].stats.rating =
       IF n = 0 THEN Whole(0) ELSE Quotient(sumRatings(active), n)

\* C21: whenever no review request is in progress, after any sequence of
\* submissions, updates, deletions and moderation actions, every rule's rating
\* is the mean of the ratings of its active Reviews and its reviewCount their
\* number, both 0 when no Review is active
C21_AggregateOfActiveReviews ==
  (\A q \in ReqIds : Free(q)) => \A r \in RuleIds : AggregateIsCurrent(r)

\* C22: once all interleaved updates and deletions of the Reviews of a rule
\* have completed, the rule's rating and reviewCount are the mean and the
\* number of the Reviews that are active at the end (stated for a rule that
\* keeps an active Review)
C22_NoStaleAggregate ==
  (\A q \in ReqIds : Free(q)) =>
    \A r \in RuleIds :
      LET active == {i \in DOMAIN reviews : reviews[i].rule = r /\ reviews[i].isActive}
      IN  active # {} =>
            /\ rules[r].stats.reviewCount = Cardinality(active)
            /\ rules[r].stats.rating =
                 Quotient(sumRatings(active), Cardinality(active))

\* C23: a submission that meets its preconditions stores a Review whose
\* deletion gives the rule back the rating and the reviewCount it had before
\* the submission: the aggregate of the Reviews active after the submission,
\* the new one left out, is the rule's aggregate before it
C23_SubmitThenDeleteRestores ==
  [][\A q \in ReqIds :
       LET rq == reqs[q]
           r  == rq.rule IN
       (/\ StepOf(q) /\ rq.op = "createReview"
        /\ rq.pc # "done" /\ reqs'[q].pc = "done"
        /\ rq.rating >= 1 /\ rq.rating <= 5
        /\ \/ rules[r].pricing.type # "PAID" /\ ~rules[r].pricing.isPaid
           \/ \E i \in DOMAIN purchases :
                 /\ purchases[i].user = rq.user /\ purchases[i].rule = r
                 /\ purchases[i].isActive
        /\ ~\E i \in DOMAIN reviews : reviews[i].user = rq.user /\ reviews[i].rule = r) =>
         \E new \in DOMAIN reviews' \ DOMAIN reviews :
            LET rest == {i \in DOMAIN reviews' \ {new} :
                           reviews'[i].rule = r /\ reviews'[i].isActive}
                n == Cardinality(rest) IN
            /\ reviews'[new].user = rq.user /\ reviews'[new].rule = r
            /\ rules[r].stats.reviewCount = n
            /\ rules[r].stats.rating =
                 IF n = 0 THEN Whole(0)
                 ELSE Quotient(sumRatings(rest), n)]_vars

----------------------------------------------------------------------------
(* Properties of submissions for paid rules (SpecReview) *)

\* C24: a submission for a paid rule by a user who is not its author and holds
\* no active Purchase of it is answered 403 and changes neither the Reviews nor
\* the rules; a submission for a paid rule by a holder of an active Purchase
\* who has not reviewed the rule stores a Review with verified = true
C24_PaidRuleReviewNeedsPurchase ==
  [][\A q \in ReqIds :
       LET rq == reqs[q]
           r  == rq.rule
           holds == \E i \in DOMAIN purchases :
                       /\ purchases[i].user = rq.user /\ purchases[i].rule = r
                       /\ purchases[i].isActive
       IN
       (/\ StepOf(q) /\ rq.op = "createReview"
        /\ rq.pc # "done" /\ reqs'[q].pc = "done"
        /\ rq.rating >= 1 /\ rq.rating <= 5
        /\ rules[r].pricing.type = "PAID" /\ rules[r].pricing.isPaid
        /\ rules[r].author # rq.user) =>
         /\ ~holds =>
              /\ reqs'[q].result = "403 You must purchase this rule to leave a review"
              /\ reviews' = reviews /\ rules' = rules
         /\ (holds /\ ~\E i \in DOMAIN reviews :
                         reviews[i].user = rq.user /\ reviews[i].rule = r) =>
              \E new \in DOMAIN reviews' \ DOMAIN reviews :
                 /\ reviews'[new].user = rq.user /\ reviews'[new].rule = r
                 /\ reviews'[new].verified]_vars

----------------------------------------------------------------------------
(* Properties of repeated submissions (SpecSubmit) *)

C26_DuplicateOnlyIfActive ==
  [][\A q \in ReqIds :
       LET rq == reqs[q] IN
       (/\ StepOf(q) /\ rq.op = "createReview"
        /\ rq.pc # "done" /\ reqs'[q].pc = "done"
        /\ ~\E i \in DOMAIN reviews :
              /\ reviews[i].user = rq.user /\ reviews[i].rule = rq.rule
              /\ reviews[i].isActive) =>
         reqs'[q].result # "409 You have already reviewed this rule"]_vars

----------------------------------------------------------------------------
(* Properties of who may change a Review (SpecReviews) *)

\* C27: a well-formed update of a Review by a user who is not its author, and
\* a deletion by a user who is neither its author nor of an elevated role, are
\* answered 403 and leave the Reviews and the rules as they were
C27_OnlyAuthorChangesReview ==
  [][\A q \in ReqIds :
       LET rq == reqs[q] IN
       (/\ StepOf(q) /\ rq.op \in {"updateReview", "deleteReview"}
        /\ rq.pc = "findReview" /\ rq.id \in DOMAIN reviews
        /\ reviews[rq.id].user # rq.user) =>
         /\ (rq.op = "updateReview" /\ (rq.rating = 0 \/ (rq.rating >= 1 /\ rq.rating <= 5))) =>
              /\ reqs'[q].pc = "done"
              /\ reqs'[q].result = "403 You can only update your own reviews"
              /\ reviews' = reviews /\ rules' = rules
         /\ (rq.op = "deleteReview" /\ users[rq.user].role \notin {"ADMIN", "MODERATOR"}) =>
              /\ reqs'[q].pc = "done"
              /\ reqs'[q].result = "403 You can only delete your own reviews"
              /\ reviews' = reviews /\ rules' = rules]_vars

\* a user was refused the deletion of another user's Review
C27_Witness ==
  \E q \in ReqIds :
     /\ reqs[q].op = "deleteReview"
     /\ reqs[q].result = "403 You can only delete your own reviews"
     /\ reqs[q].id \in DOMAIN reviews
     /\ reviews[reqs[q].id].user # reqs[q].user
     /\ reviews[reqs[q].id].isActive

----------------------------------------------------------------------------
(* Properties of helpful marks (SpecHelpful) *)

\* the set of users in a list
Range(list) == {list[i] : i \in DOMAIN list}

\* C28: marking a Review helpful adds the user and raises helpful.count by one
\* only if the user is not yet among helpful.users, and changes nothing if the
\* user is; taking the mark back removes the user and lowers the count by one
\* if the user is among them, and changes nothing if not; the count is always
\* the number of users, each listed once.  Hence two marks in a row count
\* once, and a mark taken back restores the count and the users.
C28_HelpfulIsAToggle ==
  /\ [](\A i \in DOMAIN reviews :
          /\ reviews[i].helpful.count = Len(reviews[i].helpful.users)
          /\ Cardinality(Range(reviews[i].helpful.users)) = Len(reviews[i].helpful.users))
  /\ [][\A q \in ReqIds :
          LET rq == reqs[q] IN
          (/\ StepOf(q) /\ rq.op = "markHelpful" /\ rq.pc = "saveReview") =>
            LET old == reviews[rq.id].helpful
                new == reviews'[rq.id].helpful
                in  == rq.user \in Range(old.users) IN
            /\ \A i \in DOMAIN reviews :
                  i # rq.id => reviews'[i] = reviews[i]
            /\ (rq.helpful /\ ~in) =>
                  /\ new.count = old.count + 1
                  /\ Range(new.users) = Range(old.users) \cup {rq.user}
            /\ (~rq.helpful /\ in) =>
                  /\ new.count = old.count - 1
                  /\ Range(new.users) = Range(old.users) \ {rq.user}
            /\ (rq.helpful <=> in) => new = old]_vars

\* a user who had marked a Review helpful marks it again: the document about
\* to be saved has the marks of the two users who marked it, as the stored one
C28_Witness ==
  \E q \in ReqIds :
     /\ reqs[q].op = "markHelpful" /\ reqs[q].pc = "saveReview" /\ reqs[q].helpful
     /\ reqs[q].user \in Range(reviews[reqs[q].id].helpful.users)
     /\ reviews[reqs[q].id].helpful.count = 2
     /\ reqs[q].vdoc.helpful = reviews[reqs[q].id].helpful

----------------------------------------------------------------------------
(* Properties of the content gate in both views (SpecViews) *)

\* C29: the author of a paid rule is given the rule's full query text by the
\* single-rule view and by the listing
C29_OwnerSeesFullContent ==
  [][\A q \in ReqIds :
       LET rq == reqs[q] IN
       (/\ StepOf(q) /\ rq.pc # "done" /\ reqs'[q].pc = "done"
        /\ reqs'[q].result = "200" /\ rq.user # Undefined) =>
         /\ (/\ rq.op = "getRuleById"
             /\ rules[rq.rule].pricing.isPaid
             /\ rules[rq.rule].author = rq.user) =>
               reqs'[q].query = rules[rq.rule].ruleContent.query
         /\ rq.op = "getRules" =>
               \A e \in reqs'[q].list :
                  (e.isPaid /\ rules[e.rule].author = rq.user) =>
                     e.query = rules[e.rule].ruleContent.query]_vars

\* the query fields of paid rules in the answers held by requesters who are not
\* signed in
AnonymousFields ==
  {reqs[q].query : q \in {p \in ReqIds :
       /\ reqs[p].op = "getRuleById" /\ reqs[p].result = "200"
       /\ reqs[p].user = Undefined /\ rules[reqs[p].rule].pricing.isPaid}}
  \cup
  UNION {{e.query : e \in {d \in reqs[q].list : d.isPaid}} :
           q \in {p \in ReqIds :
                    /\ reqs[p].op = "getRules" /\ reqs[p].result = "200"
                    /\ reqs[p].user = Undefined}}

\* C30: the query fields of paid rules given to requesters who are not signed
\* in are all the same text, whatever the rules' query texts are
C30_AnonymousFieldIsFixed ==
  \A x, y \in AnonymousFields : x = y

\* two requesters who are not signed in hold the single-rule views of two paid
\* rules that differ in their query text
C30_Witness ==
  \E p, q \in ReqIds :
     /\ reqs[p].op = "getRuleById" /\ reqs[p].result = "200" /\ reqs[p].user = Undefined
     /\ reqs[q].op = "getRuleById" /\ reqs[q].result = "200" /\ reqs[q].user = Undefined
     /\ rules[reqs[p].rule].pricing.isPaid /\ rules[reqs[q].rule].pricing.isPaid
     /\ rules[reqs[p].rule].ruleContent.query # rules[reqs[q].rule].ruleContent.query

----------------------------------------------------------------------------
(* Properties of the masked view (SpecLongViews, SpecViews) *)

\* u is signed in, is not the author of the paid rule r and holds no active
\* Purchase of it
Stranger(u, r) ==
  /\ u # Undefined
  /\ rules[r].pricing.isPaid
  /\ rules[r].author # u
  /\ ~\E i \in DOMAIN purchases :
        purchases[i].user = u /\ purchases[i].rule = r /\ purchases[i].isActive

\* text is a proper prefix of the query of rule r followed by the purchase
\* marker
Truncated(text, r) ==
  \E n \in 0..(Len(rules[r].ruleContent.query) - 1) :
     text = SubSeq(rules[r].ruleContent.query, 1, n) \o PurchaseMarker

\* C31: the single-rule view and the listing give a signed-in requester who is
\* neither author nor purchaser of a paid rule the same text for it: the query
\* cut to one prefix length, followed by the purchase marker
C31_OnePrefixLength ==
  \A p, q \in ReqIds :
    (/\ reqs[p].op = "getRuleById" /\ reqs[p].result = "200"
     /\ reqs[q].op = "getRules" /\ reqs[q].result = "200"
     /\ Stranger(reqs[p].user, reqs[p].rule)
     /\ Stranger(reqs[q].user, reqs[p].rule)
     /\ Len(rules[reqs[p].rule].ruleContent.query) > DetailPrefix) =>
      \A e \in reqs[q].list :
         e.rule = reqs[p].rule =>
           /\ Truncated(reqs[p].query, e.rule)
           /\ e.query = reqs[p].query

\* u holds an active Purchase of rule r
Holds(u, r) ==
  \E i \in DOMAIN purchases :
     purchases[i].user = u /\ purchases[i].rule = r /\ purchases[i].isActive

\* C32: when a listing is answered to a signed-in requester, the entry of a
\* paid rule carries the full query text exactly if the requester holds an
\* active Purchase of that very rule: a Purchase of another rule, or another
\* user's Purchase, unmasks nothing
C32_MaskedPerRuleAndRequester ==
  [][\A q \in ReqIds :
       (/\ reqs[q].op = "getRules" /\ reqs[q].pc = "mask"
        /\ reqs'[q].pc = "done" /\ reqs[q].user # Undefined) =>
         \A e \in reqs'[q].list :
            rules[e.rule].pricing.isPaid =>
              /\ Holds(reqs[q].user, e.rule) =>
                   e.query = rules[e.rule].ruleContent.query
              /\ ~Holds(reqs[q].user, e.rule) =>
                   /\ e.query # rules[e.rule].ruleContent.query
                   /\ e.query = substring(rules[e.rule].ruleContent.query, ListPrefix)
                                  \o PurchaseMarker]_vars

\* a listing answered to a requester who holds a Purchase of one paid rule and
\* none of a second one, which another user has purchased: the first entry is
\* in full, the second is masked
C32_Witness ==
  \E q \in ReqIds :
    /\ reqs[q].op = "getRules" /\ reqs[q].result = "200"
    /\ \E a, b \in reqs[q].list :
         /\ a.rule # b.rule
         /\ rules[a.rule].pricing.isPaid /\ rules[b.rule].pricing.isPaid
         /\ Holds(reqs[q].user, a.rule) /\ ~Holds(reqs[q].user, b.rule)
         /\ \E v \in Users \ {reqs[q].user} : Holds(v, b.rule)
         /\ a.query = rules[a.rule].ruleContent.query
         /\ b.query = rules[b.rule].ruleContent.query \o PurchaseMarker

----------------------------------------------------------------------------
(* Properties of the refund resolution's access rule (SpecSeq) *)

\* C33: a resolveRefund request of a user whose role is not ADMIN, the buyer
\* and the seller of the Transaction included, is answered 403 on arrival,
\* never enters the handler, and changes no Transaction and no user's earnings
C33_OnlyAdminResolves ==
  [][\A q \in ReqIds :
       /\ (Arrives(q, "processRefund") /\ users[reqs'[q].user].role # "ADMIN") =>
             /\ reqs'[q].pc = "done"
             /\ reqs'[q].result = "403 Insufficient permissions"
             /\ transactions' = transactions
             /\ users' = users
       /\ (StepOf(q) /\ reqs[q].op = "processRefund" /\ reqs[q].pc # "done") =>
             users[reqs[q].user].role = "ADMIN"]_vars

\* the buyer's resolveRefund of the buyer's own DISPUTED Transaction has been
\* refused and the Transaction is still DISPUTED
C33_Witness ==
  \E q \in ReqIds :
     /\ reqs[q].op = "processRefund"
     /\ reqs[q].result = "403 Insufficient permissions"
     /\ reqs[q].id \in DOMAIN transactions
     /\ transactions[reqs[q].id].buyer = reqs[q].user
     /\ transactions[reqs[q].id].status = "DISPUTED"

----------------------------------------------------------------------------
(* Properties of the sellers' earnings (SpecSeq, SpecFault) *)

RECURSIVE Owed(_, _)
\* the sum of sellerEarnings over those of the first n transactions that s
\* sold and that are COMPLETED or DISPUTED
Owed(s, n) ==
  IF n = 0 THEN Zero
  ELSE IF transactions[n].seller = s
          /\ transactions[n].status \in {"COMPLETED", "DISPUTED"}
       THEN FAdd(Owed(s, n - 1), transactions[n].sellerEarnings)
       ELSE Owed(s, n - 1)

\* C34: whenever no request is in flight, the earnings kept on every user's
\* record, on the path the schema declares or on the path the refund writes,
\* are not negative and equal the sum of sellerEarnings over the user's sales
\* that are COMPLETED or DISPUTED
C34_EarningsAreSumOfSales ==
  (\A q \in ReqIds : Free(q)) =>
    \A s \in Users :
      \E e \in {users[s].statistics.totalEarnings, users[s].statistics.earnings} :
         ~e.neg /\ e = Owed(s, Len(transactions))

----------------------------------------------------------------------------
(* Properties relating the content gate and the purchase (SpecGate) *)

\* C35: a purchase request for a stored rule that the gate treats as paid
\* (pricing.isPaid), sent by a signed-in user who is not the rule's author and
\* holds no active Purchase of it, is never refused
C35_MaskedRuleCanBeBought ==
  [][\A q \in ReqIds :
       LET rq == reqs[q] IN
       (/\ StepOf(q) /\ rq.op = "purchaseRule" /\ rq.pc # "done"
        /\ reqs'[q].pc = "done"
        /\ reqs'[q].result # "201 Purchase completed successfully") =>
          ~(/\ rules[rq.rule].pricing.isPaid
            /\ rules[rq.rule].author # rq.user
            /\ ~Holds(rq.user, rq.rule))]_vars

----------------------------------------------------------------------------
(* Properties of what a masked view discloses (SpecViews) *)

\* part occurs in text as a contiguous piece
Contains(text, part) ==
  \E i \in 0..(Len(text) - Len(part)) : SubSeq(text, i + 1, i + Len(part)) = part

\* u is not signed in, or is signed in without being the author or a purchaser
\* of the paid rule r
Outsider(u, r) ==
  /\ rules[r].pricing.isPaid
  /\ u = Undefined \/ Stranger(u, r)

\* C36: the query field answered for a paid rule to a requester who is neither
\* its author nor a purchaser, in the single-rule view and in the listing,
\* never contains the rule's complete query text, however short the text is
C36_MaskedViewWithholdsText ==
  \A q \in ReqIds :
    /\ (/\ reqs[q].op = "getRuleById" /\ reqs[q].result = "200"
        /\ Outsider(reqs[q].user, reqs[q].rule)) =>
          ~Contains(reqs[q].query, rules[reqs[q].rule].ruleContent.query)
    /\ (reqs[q].op = "getRules" /\ reqs[q].result = "200") =>
          \A e \in reqs[q].list :
             Outsider(reqs[q].user, e.rule) =>
               ~Contains(e.query, rules[e.rule].ruleContent.query)

----------------------------------------------------------------------------
(* Properties of the helpful marks under concurrent requests               *)
(* (SpecHelpfulConcurrent)                                                 *)

\* C37: in every state, however markHelpful requests interleave, helpful.count
\* of every Review is the number of entries of helpful.users, no user is
\* listed twice, and the count is not negative
C37_CountMatchesUsers ==
  \A i \in DOMAIN reviews :
     LET h == reviews[i].helpful IN
     /\ h.count = Len(h.users)
     /\ \A j, k \in DOMAIN h.users : h.users[j] = h.users[k] => j = k
     /\ h.count >= 0

----------------------------------------------------------------------------
(* Properties of the refund's two writes (SpecFault) *)

RECURSIVE RefundedOf(_, _)
\* the sum of sellerEarnings over those of the first n transactions that s
\* sold and that are REFUNDED
RefundedOf(s, n) ==
  IF n = 0 THEN Zero
  ELSE IF transactions[n].seller = s /\ transactions[n].status = "REFUNDED"
       THEN FAdd(RefundedOf(s, n - 1), transactions[n].sellerEarnings)
       ELSE RefundedOf(s, n - 1)

\* C38: whenever no request is in flight, what the refunds have taken from a
\* seller's earnings is the sum of sellerEarnings over the seller's REFUNDED
\* Transactions: nothing is taken on account of a Transaction that is
\* COMPLETED or DISPUTED, whichever database call has failed
C38_DeductedIffRefunded ==
  (\A q \in ReqIds : Free(q)) =>
    \A s \in Users :
       FNeg(users[s].statistics.earnings) = RefundedOf(s, Len(transactions))

----------------------------------------------------------------------------
(* Properties of the views' effect on the stored rules (SpecGate) *)

\* C39: no step of a listing changes a stored rule, no step of a single-rule
\* view changes anything of a stored rule but its statistics, and a view or a
\* listing answered to a holder of an active Purchase gives the rule's query
\* text as it was stored before any view
C39_ViewsLeaveContentStored ==
  [][\A q \in ReqIds :
       LET rq == reqs[q] IN
       /\ (StepOf(q) /\ reqs'[q].op = "getRules") => rules' = rules
       /\ (StepOf(q) /\ reqs'[q].op = "getRuleById") =>
             \A r \in RuleIds :
                [rules'[r] EXCEPT !.statistics = rules[r].statistics] = rules[r]
       /\ (/\ StepOf(q) /\ rq.pc # "done" /\ reqs'[q].pc = "done"
           /\ reqs'[q].result = "200" /\ rq.user # Undefined) =>
             /\ (rq.op = "getRuleById" /\ Holds(rq.user, rq.rule)) =>
                   reqs'[q].query = PublishedCatalogue[rq.rule].ruleContent.query
             /\ rq.op = "getRules" =>
                   \A e \in reqs'[q].list :
                      Holds(rq.user, e.rule) =>
                        e.query = PublishedCatalogue[e.rule].ruleContent.query]_vars

\* the single-rule view of a paid rule is answered in full to the holder of a
\* Purchase, the rule having been viewed before
C39_Witness ==
  \E q \in ReqIds :
     /\ reqs[q].op = "getRuleById" /\ reqs[q].result = "200"
     /\ reqs[q].user # Undefined
     /\ rules[reqs[q].rule].pricing.isPaid
     /\ Holds(reqs[q].user, reqs[q].rule)
     /\ rules[reqs[q].rule].statistics.views >= 2
     /\ reqs[q].query = rules[reqs[q].rule].ruleContent.query

====
